---- MODULE Spec2Model ----
(***************************************************************************)
(* FastCarVision scraping subsystem (backend/app/scrapers.py): the source  *)
(* clients AutoTraderScraper and CarsComScraper, the shared BaseScraper    *)
(* helpers, and ScrapingOrchestrator.scrape_all.                           *)
(*                                                                         *)
(* Text is a sequence of one-character strings.  An Optional[T] value is a *)
(* sequence of at most one T: None is <<>> and Some(x) is <<x>>.           *)
(***************************************************************************)
EXTENDS Integers, Sequences, FiniteSets, TLC

VARIABLES
    scrapers,     \* ScrapingOrchestrator.scrapers: the enabled clients, in order
    detection,    \* the CarDetection passed to scrape_all
    pc,           \* position of the scrape_all coroutine
    session,      \* the aiohttp.ClientSession of this invocation
    task,         \* per source: position of its scrape_listings coroutine
    gets,         \* per source: number of session.get calls issued
    outcome,      \* per source: what the transport answered (Optional)
    html,         \* per source: what get_page returned (Optional[Optional body])
    taskResult,   \* per source: the entry asyncio.gather hands back (Optional)
    merged,       \* all_listings after the combine loop (line 282)
    demoCalls,    \* number of _generate_demo_listings calls
    result,       \* how scrape_all ended: its return value or raised (Optional)
    finished,     \* the sources in the order in which their tasks ended
    fn,           \* helper bench: which pure helper was applied
    arg,          \* helper bench: its input
    out,          \* helper bench: its output (Optional)
    limit,        \* settings.max_concurrent_requests
    clients,      \* per source: the client object's base_url, source, headers
    calls,        \* per invocation of scrape_all on the global orchestrator: its frame
    sessions      \* the ClientSessions created so far, in creation order

\* the state of the concurrent invocations (see the section on them below)
overlapVars == <<limit, clients, calls, sessions>>

\* the state of the single invocation and of the helper bench
searchVars == <<scrapers, detection, pc, session, task, gets, outcome, html,
                taskResult, merged, demoCalls, result, finished, fn, arg, out>>

vars == <<searchVars, overlapVars>>

----------------------------------------------------------------------------
(* Optional values and sequence helpers *)

None == <<>>

Some(x) == <<x>>

IsNone(o) == o = <<>>

Val(o) == o[1]

Take(s, n) == SubSeq(s, 1, IF Len(s) < n THEN Len(s) ELSE n)

Range(s) == {s[i] : i \in DOMAIN s}

----------------------------------------------------------------------------
(* Characters *)

Digits == {"0", "1", "2", "3", "4", "5", "6", "7", "8", "9"}

\* str.split() and get_text(strip=True) treat these as whitespace
Whitespace == {" ", "\t", "\n"}

----------------------------------------------------------------------------
(* BaseScraper.parse_price *)

\* price_text.replace(' ', '')
RemoveSpaces(t) == SelectSeq(t, LAMBDA c : c # " ")

PriceChar(c) == c \in Digits \/ c = ","

\* end index of the greedy run of [\d,] starting at i (i itself is in the run)
RECURSIVE RunEnd(_, _)
RunEnd(t, i) ==
    IF i < Len(t) /\ PriceChar(t[i + 1]) THEN RunEnd(t, i + 1) ELSE i

\* re.search(r'\$[\d,]+', t): the leftmost match, as <<first, last>>
PriceMatches(t) ==
    {i \in 1..(Len(t) - 1) : t[i] = "$" /\ PriceChar(t[i + 1])}

Min(S) == CHOOSE x \in S : \A y \in S : x <= y

parse_price(price_text) ==
    IF price_text = <<>> THEN None
    ELSE LET t == RemoveSpaces(price_text)
             m == PriceMatches(t)
         IN  IF m = {} THEN None
             ELSE Some(SubSeq(t, Min(m), RunEnd(t, Min(m) + 1)))

----------------------------------------------------------------------------
(* BaseScraper.parse_mileage *)

StartsWith(t, i, w) ==
    /\ i + Len(w) - 1 <= Len(t)
    /\ \A k \in 1..Len(w) : t[i + k - 1] = w[k]

\* index after the greedy \s* starting at i
RECURSIVE SkipSpace(_, _)
SkipSpace(t, i) ==
    IF i <= Len(t) /\ t[i] \in Whitespace THEN SkipSpace(t, i + 1) ELSE i

MileWord == <<"m", "i", "l", "e">>

\* last index matched by [kK]?(\s*miles?)? when the digit run ends at e
MileageEnd(t, e) ==
    LET k == IF e < Len(t) /\ t[e + 1] \in {"k", "K"} THEN e + 1 ELSE e
        w == SkipSpace(t, k + 1)
    IN  IF StartsWith(t, w, MileWord)
        THEN IF w + 4 <= Len(t) /\ t[w + 4] = "s" THEN w + 4 ELSE w + 3
        ELSE k

parse_mileage(mileage_text) ==
    IF mileage_text = <<>> THEN None
    ELSE LET m == {i \in 1..Len(mileage_text) : PriceChar(mileage_text[i])}
         IN  IF m = {} THEN None
             ELSE Some(SubSeq(mileage_text, Min(m),
                              MileageEnd(mileage_text, RunEnd(mileage_text, Min(m)))))

----------------------------------------------------------------------------
(* Titles: get_text(strip=True), str.split(), _extract_make_model *)

RECURSIVE LStrip(_)
LStrip(t) ==
    IF t # <<>> /\ Head(t) \in Whitespace THEN LStrip(Tail(t)) ELSE t

RECURSIVE RStrip(_)
RStrip(t) ==
    IF t # <<>> /\ t[Len(t)] \in Whitespace
    THEN RStrip(SubSeq(t, 1, Len(t) - 1)) ELSE t

\* element.get_text(strip=True) of an element holding one text node
get_text(t) == RStrip(LStrip(t))

\* title.split(): the maximal runs of non-whitespace characters, in order
RECURSIVE SplitFrom(_, _, _)
SplitFrom(t, i, cur) ==
    IF i > Len(t) THEN (IF cur = <<>> THEN <<>> ELSE <<cur>>)
    ELSE IF t[i] \in Whitespace
         THEN (IF cur = <<>> THEN <<>> ELSE <<cur>>) \o SplitFrom(t, i + 1, <<>>)
         ELSE SplitFrom(t, i + 1, Append(cur, t[i]))

split(t) == SplitFrom(t, 1, <<>>)

Unknown == <<"U", "n", "k", "n", "o", "w", "n">>

\* variant: the offsets of the Cars.com client (make 1st token, model 2nd)
AutoTrader_extract_make_model_offset0(title) ==
    LET words == split(title)
    IN  IF Len(words) >= 2
        THEN <<words[1], words[2]>>
        ELSE <<Unknown, Unknown>>

\* AutoTraderScraper._extract_make_model: <<make, model>>
AutoTrader_extract_make_model(title) ==
    LET words == split(title)
    IN  IF Len(words) >= 2
        THEN <<words[2], IF Len(words) > 2 THEN words[3] ELSE Unknown>>
        ELSE <<Unknown, Unknown>>

\* CarsComScraper._extract_make_model: <<make, model>>
CarsCom_extract_make_model(title) ==
    LET words == split(title)
    IN  IF Len(words) >= 2
        THEN <<words[1], words[2]>>
        ELSE <<Unknown, Unknown>>

----------------------------------------------------------------------------
(* URLs: a URL is its urlparse components; path is path.split('/'), so the *)
(* empty path is <<"">>, "/" is <<"", "">> and "/a/b" is <<"", "a", "b">>. *)

Url(scheme, netloc, path) == [scheme |-> scheme, netloc |-> netloc, path |-> path]

EmptyUrl == Url("", "", <<"">>)

\* urllib.parse.uses_relative, as far as the hrefs of the model go
UsesRelative == {"", "http", "https", "ftp", "file"}

\* urlsplit raises ValueError("Invalid IPv6 URL") on an unbalanced bracket
UrlRaises(url) == url.netloc = "["

Last(s) == s[Len(s)]

\* segments[1:-1] = filter(None, segments[1:-1])
FilterMiddle(segs) ==
    IF Len(segs) <= 2 THEN segs
    ELSE <<segs[1]>> \o SelectSeq(SubSeq(segs, 2, Len(segs) - 1), LAMBDA x : x # "")
         \o <<Last(segs)>>

\* the loop over segments that pops on '..' and skips '.'
RECURSIVE ResolveDots(_, _)
ResolveDots(segs, acc) ==
    IF segs = <<>> THEN acc
    ELSE IF Head(segs) = ".."
         THEN ResolveDots(Tail(segs),
                          IF acc = <<>> THEN acc ELSE SubSeq(acc, 1, Len(acc) - 1))
         ELSE IF Head(segs) = "."
              THEN ResolveDots(Tail(segs), acc)
              ELSE ResolveDots(Tail(segs), Append(acc, Head(segs)))

\* urlunsplit: with a netloc, a non-empty path gets its leading '/'
Unsplit(scheme, netloc, path) ==
    Url(scheme, netloc,
        IF netloc # "" /\ path # <<"">> /\ path[1] # "" THEN <<"">> \o path ELSE path)

\* urllib.parse.urljoin(base, url) for a url on which urlsplit does not raise
urljoin(base, url) ==
    IF base = EmptyUrl THEN url
    ELSE IF url = EmptyUrl THEN base
    ELSE LET scheme == IF url.scheme = "" THEN base.scheme ELSE url.scheme
         IN  IF scheme # base.scheme \/ scheme \notin UsesRelative THEN url
             ELSE IF url.netloc # "" THEN Unsplit(scheme, url.netloc, url.path)
             ELSE IF url.path = <<"">> THEN Unsplit(scheme, base.netloc, base.path)
             ELSE LET base_parts ==
                          IF Last(base.path) # ""
                          THEN SubSeq(base.path, 1, Len(base.path) - 1)
                          ELSE base.path
                      segments ==
                          IF Len(url.path) > 1 /\ url.path[1] = ""
                          THEN url.path
                          ELSE FilterMiddle(base_parts \o url.path)
                      resolved ==
                          ResolveDots(segments, <<>>)
                          \o (IF Last(segments) \in {".", ".."} THEN <<"">> ELSE <<>>)
                  IN  Unsplit(scheme, base.netloc,
                          IF resolved \in {<<>>, <<"">>} THEN <<"", "">> ELSE resolved)

----------------------------------------------------------------------------
(* Source clients *)

AutoTrader == "autotrader"

CarsCom == "cars.com"

Sources == {AutoTrader, CarsCom}

\* BaseScraper.__init__ sets "", the subclasses overwrite it
base_url(s) ==
    IF s = AutoTrader THEN Url("https", "www.autotrader.com", <<"">>)
    ELSE IF s = CarsCom THEN Url("https", "www.cars.com", <<"">>)
    ELSE EmptyUrl

\* self.source
source(s) == s

\* CarListing as the source clients and the demo generator build it
CarListing(title, price, year, make, model, mileage, location, dealer, image_url, listing_url, src) ==
    [title |-> title, price |-> price, year |-> year, make |-> make,
     model |-> model, mileage |-> mileage, location |-> location,
     dealer |-> dealer, image_url |-> image_url, listing_url |-> listing_url,
     source |-> src]

\* variant: the href is stored as found
resolve_link_raw(s, href) == href

\* link = urljoin(self.base_url, link_elem['href'])
resolve_link(s, href) == urljoin(base_url(s), href)

\* soup.find_all('div', class_=re.compile(...)): re.search on the class value
MatchesContainer(s, node) ==
    IF s = AutoTrader
    THEN node.cls \in {"listing-item", "inventory-listing"}
    ELSE node.cls \in {"vehicle-card", "listing", "listing-item", "inventory-listing"}

\* element.find('h3') or element.find('a', class_=title|heading)   (AutoTrader)
\* element.find('h2') or element.find('a', class_=title)           (Cars.com)
TitleElem(s, node) ==
    IF node.title = None THEN None
    ELSE IF s = AutoTrader
         THEN (IF node.titleTag \in {"h3", "a.title", "a.heading"} THEN node.title ELSE None)
         ELSE (IF node.titleTag \in {"h2", "a.title"} THEN node.title ELSE None)

\* AutoTraderScraper._parse_autotrader_listing: Optional[CarListing]
parse_autotrader_listing(element) ==
    LET title_elem == TitleElem(AutoTrader, element)
        link_elem == element.href
    IN  IF IsNone(title_elem) \/ IsNone(link_elem) THEN None
        ELSE IF UrlRaises(Val(link_elem)) THEN None
        ELSE LET title == get_text(Val(title_elem))
                 mm == AutoTrader_extract_make_model(title)
             IN  Some(CarListing(
                     title,
                     IF IsNone(element.price) THEN None
                     ELSE parse_price(get_text(Val(element.price))),
                     None, mm[1], mm[2],
                     IF IsNone(element.mileage) THEN None
                     ELSE parse_mileage(get_text(Val(element.mileage))),
                     IF IsNone(element.location) THEN None
                     ELSE Some(get_text(Val(element.location))),
                     None,
                     element.img,
                     resolve_link(AutoTrader, Val(link_elem)),
                     source(AutoTrader)))

\* CarsComScraper._parse_cars_listing: Optional[CarListing]
parse_cars_listing(element) ==
    LET title_elem == TitleElem(CarsCom, element)
        link_elem == element.href
    IN  IF IsNone(title_elem) \/ IsNone(link_elem) THEN None
        ELSE IF UrlRaises(Val(link_elem)) THEN None
        ELSE LET title == get_text(Val(title_elem))
                 mm == CarsCom_extract_make_model(title)
             IN  Some(CarListing(
                     title,
                     IF IsNone(element.price) THEN None
                     ELSE parse_price(get_text(Val(element.price))),
                     None, mm[1], mm[2], None, None, None, None,
                     resolve_link(CarsCom, Val(link_elem)),
                     source(CarsCom)))

parse_listing(s, element) ==
    IF s = AutoTrader THEN parse_autotrader_listing(element)
    ELSE parse_cars_listing(element)

----------------------------------------------------------------------------
(* ScrapingOrchestrator._generate_demo_listings *)

\* `random`: the generator's state is a number, each draw advances it
RandomNext(r) == (r * 5 + 3) % 64

\* random.choice(seq) with the generator in state r
choice(seq, r) == seq[(r % Len(seq)) + 1]

\* random.randint(a, b) with the generator in state r
randint(a, b, r) == a + (r % (b - a + 1))

makes ==
    <<<<"T", "o", "y", "o", "t", "a">>,
      <<"H", "o", "n", "d", "a">>,
      <<"F", "o", "r", "d">>,
      <<"C", "h", "e", "v", "r", "o", "l", "e", "t">>,
      <<"N", "i", "s", "s", "a", "n">>,
      <<"B", "M", "W">>,
      <<"M", "e", "r", "c", "e", "d", "e", "s">>>>

models ==
    <<<<"C", "a", "m", "r", "y">>,
      <<"A", "c", "c", "o", "r", "d">>,
      <<"F", "-", "1", "5", "0">>,
      <<"C", "r", "u", "z", "e">>,
      <<"A", "l", "t", "i", "m", "a">>,
      <<"3", " ", "S", "e", "r", "i", "e", "s">>,
      <<"C", "-", "C", "l", "a", "s", "s">>>>

prices ==
    <<<<"$", "1", "5", ",", "9", "9", "9">>,
      <<"$", "2", "2", ",", "5", "0", "0">>,
      <<"$", "1", "8", ",", "7", "5", "0">>,
      <<"$", "2", "8", ",", "9", "0", "0">>,
      <<"$", "3", "1", ",", "2", "0", "0">>>>

years == <<2018, 2019, 2020, 2021, 2022>>

\* str(n) for n >= 0, as text
RECURSIVE Str(_)
Str(n) ==
    IF n < 10 THEN <<ToString(n)>> ELSE Append(Str(n \div 10), ToString(n % 10))

\* variant: demo listings carry a real client's source
DemoSource_asAutoTrader == "autotrader"

\* source="demo"
DemoSource == "demo"

\* the number of listings one call generates: range(5)
DemoCount == 5

\* the i-th demo listing (i from 0); r is the generator's state before its
\* first draw, the draws are make, model, year, price, mileage in that order
DemoListing(i, r) ==
    LET r1 == RandomNext(r)
        r2 == RandomNext(r1)
        r3 == RandomNext(r2)
        r4 == RandomNext(r3)
        make == choice(makes, r)
        model == choice(models, r1)
        year == choice(years, r2)
        price == choice(prices, r3)
    IN  CarListing(
            Str(year) \o <<" ">> \o make \o <<" ">> \o model,
            Some(price), Some(year), make, model,
            Some(Str(randint(15, 80, r4)) \o <<",", "0", "0", "0", " ", "m", "i", "l", "e", "s">>),
            Some(<<"D", "e", "m", "o", " ", "L", "o", "c", "a", "t", "i", "o", "n">>),
            Some(<<"D", "e", "m", "o", " ", "D", "e", "a", "l", "e", "r">>),
            None,
            Url("https", "example.com", <<"", "listing", ToString(i)>>),
            DemoSource)

\* the generator's state after k listings (5 draws each)
RECURSIVE RandomAfter(_, _)
RandomAfter(r, k) ==
    IF k = 0 THEN r
    ELSE RandomAfter(RandomNext(RandomNext(RandomNext(RandomNext(RandomNext(r))))), k - 1)

\* variant: the demo listings are numbered from 1
generate_demo_listings_fromOne(r) ==
    [k \in 1..DemoCount |-> DemoListing(k, RandomAfter(r, k - 1))]

\* for i in range(5): the demo listings 0..4, drawn one after the other
generate_demo_listings(r) ==
    [k \in 1..DemoCount |-> DemoListing(k - 1, RandomAfter(r, k - 1))]

----------------------------------------------------------------------------
(* BaseScraper.get_page and the clients' scrape_listings *)

\* What the transport answers to one session.get:
\*   kind "response": a status line arrived; read says whether response.text()
\*                    then returned the body or raised
\*   kind "error":    session.get raised aiohttp.ClientError
\*   kind "timeout":  session.get raised asyncio.TimeoutError
Response(status, read, body) ==
    [kind |-> "response", status |-> status, read |-> read, body |-> body]

Failure(kind) == [kind |-> kind, status |-> 0, read |-> "none", body |-> <<>>]

\* variant: the status is not looked at
get_page_anyStatus(o) ==
    IF o.kind = "response"
    THEN IF o.read # "error"
         THEN [raised |-> FALSE, value |-> Some(o.body)]
         ELSE [raised |-> FALSE, value |-> None]
    ELSE [raised |-> FALSE, value |-> None]

\* get_page's outcome: raised says whether an exception left it, value is
\* what it returned (Optional body) when none did
get_page(o) ==
    IF o.kind = "response"
    THEN IF o.status = 200
         THEN IF o.read = "ok"
              THEN [raised |-> FALSE, value |-> Some(o.body)]
              ELSE [raised |-> FALSE, value |-> None]
         ELSE [raised |-> FALSE, value |-> None]
    ELSE [raised |-> FALSE, value |-> None]

\* what asyncio.gather(..., return_exceptions=True) holds for one task
ListResult(listings) == [kind |-> "list", value |-> listings]

ExceptionResult == [kind |-> "exception", value |-> <<>>]

CancelledResult == [kind |-> "cancelled", value |-> <<>>]

\* variant: gather without return_exceptions, the first failure is raised
gather_raising(results) ==
    [raised |-> \E i \in DOMAIN results : results[i].kind # "list", value |-> results]

\* await asyncio.gather(*tasks, return_exceptions=True): every task's result
\* or exception, in task order; nothing is raised into scrape_all
gather(results) == [raised |-> FALSE, value |-> results]

\* listing_elements[:10]
ElementLimit == 10

\* BeautifulSoup(html, 'html.parser') raises ParserRejectedMarkup on this
RejectedMarkup(body) == \E i \in DOMAIN body : body[i].cls = "<!["

\* variant: the loop ends at the first element that yields no listing
RECURSIVE ParseElements_abortOnFailure(_, _)
ParseElements_abortOnFailure(s, elements) ==
    IF elements = <<>> \/ parse_listing(s, Head(elements)) = None THEN <<>>
    ELSE parse_listing(s, Head(elements))
         \o ParseElements_abortOnFailure(s, Tail(elements))

\* the for loop of scrape_listings: parse each element, keep what is not None
RECURSIVE ParseElements(_, _)
ParseElements(s, elements) ==
    IF elements = <<>> THEN <<>>
    ELSE parse_listing(s, Head(elements)) \o ParseElements(s, Tail(elements))

\* variant: every container of the page is parsed, not the first 10 only
scrape_listings_allElements(s, page) ==
    IF page.raised THEN ExceptionResult
    ELSE IF IsNone(page.value) \/ Val(page.value) = <<>> THEN ListResult(<<>>)
    ELSE IF RejectedMarkup(Val(page.value)) THEN ExceptionResult
    ELSE ListResult(ParseElements(s, SelectSeq(Val(page.value),
                                               LAMBDA n : MatchesContainer(s, n))))

\* scrape_listings from the point where get_page has answered with page
scrape_listings(s, page) ==
    IF page.raised THEN ExceptionResult
    ELSE IF IsNone(page.value) \/ Val(page.value) = <<>> THEN ListResult(<<>>)
    ELSE IF RejectedMarkup(Val(page.value)) THEN ExceptionResult
    ELSE LET listing_elements ==
                 SelectSeq(Val(page.value), LAMBDA n : MatchesContainer(s, n))
         IN  ListResult(ParseElements(s, Take(listing_elements, ElementLimit)))

----------------------------------------------------------------------------
(* Search URLs: str.upper, str.lower, urllib.parse.urlencode, build_search_url *)

Lowercase ==
    <<"a", "b", "c", "d", "e", "f", "g", "h", "i", "j", "k", "l", "m", "n",
      "o", "p", "q", "r", "s", "t", "u", "v", "w", "x", "y", "z">>

Uppercase ==
    <<"A", "B", "C", "D", "E", "F", "G", "H", "I", "J", "K", "L", "M", "N",
      "O", "P", "Q", "R", "S", "T", "U", "V", "W", "X", "Y", "Z">>

IndexIn(seq, c) == CHOOSE i \in DOMAIN seq : seq[i] = c

\* str.upper() on the characters of the model: ASCII letters change, the rest stays
upper(t) ==
    [i \in DOMAIN t |->
        IF t[i] \in Range(Lowercase) THEN Uppercase[IndexIn(Lowercase, t[i])] ELSE t[i]]

\* str.lower()
lower(t) ==
    [i \in DOMAIN t |->
        IF t[i] \in Range(Uppercase) THEN Lowercase[IndexIn(Uppercase, t[i])] ELSE t[i]]

\* the characters quote_plus leaves as they are
Unreserved ==
    Range(Lowercase) \cup Range(Uppercase) \cup Digits \cup {"_", ".", "-", "~"}

\* quote_plus of one character: ' ' becomes '+', a reserved character %XX
QuoteChar(c) ==
    IF c \in Unreserved THEN <<c>>
    ELSE IF c = " " THEN <<"+">>
    ELSE CASE c = "," -> <<"%", "2", "C">>
           [] c = "[" -> <<"%", "5", "B">>
           [] c = "]" -> <<"%", "5", "D">>
           [] c = "$" -> <<"%", "2", "4">>
           [] c = "&" -> <<"%", "2", "6">>
           [] c = "=" -> <<"%", "3", "D">>
           [] c = "+" -> <<"%", "2", "B">>
           [] c = "/" -> <<"%", "2", "F">>
           [] c = "?" -> <<"%", "3", "F">>
           [] c = "%" -> <<"%", "2", "5">>

\* urllib.parse.quote_plus
RECURSIVE quote_plus(_)
quote_plus(t) ==
    IF t = <<>> THEN <<>> ELSE QuoteChar(Head(t)) \o quote_plus(Tail(t))

\* urllib.parse.urlencode(params): key=value of each item, in the dict's
\* insertion order, joined by '&'
RECURSIVE urlencode(_)
urlencode(params) ==
    IF params = <<>> THEN <<>>
    ELSE quote_plus(Head(params)[1]) \o <<"=">> \o quote_plus(Head(params)[2])
         \o (IF Tail(params) = <<>> THEN <<>> ELSE <<"&">> \o urlencode(Tail(params)))

\* max(a, b), min(a, b)
max(a, b) == IF a >= b THEN a ELSE b

min(a, b) == IF a <= b THEN a ELSE b

\* max(car_detection.year - 2, 1990)
FirstYear == 1990

\* min(car_detection.year + 2, 2024)
LastYear == 2024

\* car_detection.year - 2, car_detection.year + 2
YearWindow == 2

\* `if car_detection.year:` is false for None and for 0
HasYear(d) == d.year # None /\ Val(d.year) # 0

AutoTraderBase ==
    <<"h", "t", "t", "p", "s", ":", "/", "/", "w", "w", "w", ".", "a", "u",
      "t", "o", "t", "r", "a", "d", "e", "r", ".", "c", "o", "m">>

AutoTraderPath ==
    <<"/", "c", "a", "r", "s", "-", "f", "o", "r", "-", "s", "a", "l", "e",
      "/", "a", "l", "l", "-", "c", "a", "r", "s">>

CarsComBase ==
    <<"h", "t", "t", "p", "s", ":", "/", "/", "w", "w", "w", ".", "c", "a",
      "r", "s", ".", "c", "o", "m">>

CarsComPath ==
    <<"/", "s", "h", "o", "p", "p", "i", "n", "g", "/", "r", "e", "s", "u",
      "l", "t", "s", "/">>

KeyMakeCodeList ==
    <<"m", "a", "k", "e", "C", "o", "d", "e", "L", "i", "s", "t">>

KeyModelCodeList ==
    <<"m", "o", "d", "e", "l", "C", "o", "d", "e", "L", "i", "s", "t">>

KeyStartYear ==
    <<"s", "t", "a", "r", "t", "Y", "e", "a", "r">>

KeyEndYear ==
    <<"e", "n", "d", "Y", "e", "a", "r">>

KeyMakes ==
    <<"m", "a", "k", "e", "s", "[", "]">>

\* the items of params before the make: line 70
AutoTraderHead ==
    <<<<<<"l", "i", "s", "t", "i", "n", "g", "T", "y", "p", "e", "s">>,
        <<"u", "s", "e", "d", ",", "n", "e", "w">>>>>>

\* the items of params after the model: lines 73-76
AutoTraderTail ==
    <<<<<<"z", "i", "p">>,
        <<"1", "0", "0", "0", "1">>>>,
      <<<<"l", "o", "c", "a", "t", "i", "o", "n">>,
        <<"[", "o", "b", "j", "e", "c", "t", " ", "O", "b", "j", "e", "c", "t", "]">>>>,
      <<<<"s", "o", "r", "t", "B", "y">>,
        <<"r", "e", "l", "e", "v", "a", "n", "c", "e">>>>,
      <<<<"n", "u", "m", "R", "e", "c", "o", "r", "d", "s">>,
        <<"2", "5">>>>>>

\* the items params starts with: lines 167-177
CarsComDefaults ==
    <<<<<<"d", "e", "a", "l", "e", "r", "_", "i", "d">>,
        <<>>>>,
      <<<<"k", "e", "y", "w", "o", "r", "d">>,
        <<>>>>,
      <<<<"m", "a", "k", "e", "_", "m", "o", "d", "e", "l", "_", "m", "a", "x", "_", "p", "r", "i", "c", "e">>,
        <<>>>>,
      <<<<"m", "a", "x", "i", "m", "u", "m", "_", "d", "i", "s", "t", "a", "n", "c", "e">>,
        <<"5", "0">>>>,
      <<<<"m", "i", "l", "e", "a", "g", "e", "_", "m", "a", "x">>,
        <<>>>>,
      <<<<"p", "a", "g", "e", "_", "s", "i", "z", "e">>,
        <<"2", "0">>>>,
      <<<<"s", "o", "r", "t">>,
        <<"b", "e", "s", "t", "_", "m", "a", "t", "c", "h", "_", "d", "e", "s", "c">>>>,
      <<<<"s", "t", "o", "c", "k", "_", "t", "y", "p", "e">>,
        <<"a", "l", "l">>>>,
      <<<<"y", "e", "a", "r", "_", "m", "a", "x">>,
        <<>>>>,
      <<<<"y", "e", "a", "r", "_", "m", "i", "n">>,
        <<>>>>,
      <<<<"z", "i", "p">>,
        <<"1", "0", "0", "0", "1">>>>>>

\* variant: make and model are sent whatever their value
AutoTrader_params_literal(d) ==
    AutoTraderHead
    \o <<<<KeyMakeCodeList, upper(d.make)>>, <<KeyModelCodeList, upper(d.model)>>>>
    \o AutoTraderTail
    \o (IF HasYear(d)
        THEN <<<<KeyStartYear, Str(max(Val(d.year) - YearWindow, FirstYear))>>,
               <<KeyEndYear, Str(min(Val(d.year) + YearWindow, LastYear))>>>>
        ELSE <<>>)

\* AutoTraderScraper.build_search_url: the dict params, as its items in order
AutoTrader_params(d) ==
    AutoTraderHead
    \o <<<<KeyMakeCodeList, IF d.make # Unknown THEN upper(d.make) ELSE <<>>>>,
          <<KeyModelCodeList, IF d.model # Unknown THEN upper(d.model) ELSE <<>>>>>>
    \o AutoTraderTail
    \o (IF HasYear(d)
        THEN <<<<KeyStartYear, Str(max(Val(d.year) - YearWindow, FirstYear))>>,
               <<KeyEndYear, Str(min(Val(d.year) + YearWindow, LastYear))>>>>
        ELSE <<>>)

\* CarsComScraper.build_search_url: the dict params, as its items in order
CarsCom_params(d) ==
    CarsComDefaults
    \o (IF d.make # Unknown THEN <<<<KeyMakes, lower(d.make)>>>> ELSE <<>>)

\* the dict a client's build_search_url fills
params(s, d) == IF s = AutoTrader THEN AutoTrader_params(d) ELSE CarsCom_params(d)

\* f"{self.base_url}/...?{urlencode(params)}"
build_search_url(s, d) ==
    (IF s = AutoTrader THEN AutoTraderBase \o AutoTraderPath
     ELSE CarsComBase \o CarsComPath)
    \o <<"?">> \o urlencode(params(s, d))


----------------------------------------------------------------------------
(* ScrapingOrchestrator.scrape_all, lines 276-288 *)

\* if len(all_listings) < 5
DemoThreshold == 5

\* all_listings[:20]
MaxResults == 20

\* variant: the loop ends at the first result that is no list
RECURSIVE Combine_stopAtFailure(_)
Combine_stopAtFailure(results) ==
    IF results = <<>> \/ Head(results).kind # "list" THEN <<>>
    ELSE Head(results).value \o Combine_stopAtFailure(Tail(results))

\* the combine loop: lists are extended in task order, the rest is skipped
RECURSIVE Combine(_)
Combine(results) ==
    IF results = <<>> THEN <<>>
    ELSE (IF Head(results).kind = "list" THEN Head(results).value ELSE <<>>)
         \o Combine(Tail(results))

\* variant: demo listings only when nothing was found
NeedsDemo_onlyWhenEmpty(all_listings) == Len(all_listings) = 0

NeedsDemo(all_listings) == Len(all_listings) < DemoThreshold

\* variant: demo listings are appended whatever the count, nothing is cut
scrape_all_return_uncut(all_listings, r) ==
    all_listings \o generate_demo_listings(r)

\* variant: demo listings fill the result up to the threshold only
scrape_all_return_fillToThreshold(all_listings, r) ==
    Take(IF NeedsDemo(all_listings)
         THEN all_listings
              \o Take(generate_demo_listings(r), DemoThreshold - Len(all_listings))
         ELSE all_listings,
         MaxResults)

\* variant: the demo listings are put in front of the real ones
scrape_all_return_demoFirst(all_listings, r) ==
    Take(IF NeedsDemo(all_listings)
         THEN generate_demo_listings(r) \o all_listings
         ELSE all_listings,
         MaxResults)

\* what scrape_all returns for the combined all_listings; r is the state of
\* `random` when the demo generator is called
scrape_all_return(all_listings, r) ==
    Take(IF NeedsDemo(all_listings)
         THEN all_listings \o generate_demo_listings(r)
         ELSE all_listings,
         MaxResults)

----------------------------------------------------------------------------
(* Inputs: texts, elements, bodies, transport outcomes, detections *)

TitleCamry ==
    <<"2", "0", "2", "0", " ", "T", "o", "y", "o", "t", "a", " ", "C",
      "a", "m", "r", "y", " ", "L", "E">>

TitleDeal ==
    <<"G", "r", "e", "a", "t", " ", "D", "e", "a", "l">>

TitleSedan ==
    <<"S", "e", "d", "a", "n">>

TitleAccord ==
    <<"2", "0", "1", "9", " ", "H", "o", "n", "d", "a", " ", "A", "c",
      "c", "o", "r", "d">>

TextPriceObo ==
    <<"P", "r", "i", "c", "e", ":", " ", "$", "1", "5", ",", "9", "9",
      "9", " ", "O", "B", "O">>

TextCallForPrice ==
    <<"C", "a", "l", "l", " ", "f", "o", "r", " ", "p", "r", "i", "c",
      "e">>

TextMiles ==
    <<"4", "5", ",", "0", "0", "0", " ", "m", "i", "l", "e", "s">>


Element(cls, titleTag, title, href, price, mileage, location, img) ==
    [cls |-> cls, titleTag |-> titleTag, title |-> title, href |-> href,
     price |-> price, mileage |-> mileage, location |-> location, img |-> img]

\* <div class="listing-item"><h3> 2020 Toyota Camry LE </h3><a href="/cars/1">...
ElCamry ==
    Element("listing-item", "h3", Some(<<" ">> \o TitleCamry \o <<"\n">>),
            Some(Url("", "", <<"", "cars", "1">>)),
            Some(TextPriceObo), Some(TextMiles), Some(<<"N", "Y", "C", " ">>),
            Some(<<"a", ".", "j", "p", "g">>))

\* <div class="listing-item"><a class="title" href="https://other.example/x">Great Deal</a>
ElDeal ==
    Element("listing-item", "a.title", Some(TitleDeal),
            Some(Url("https", "other.example", <<"", "x">>)),
            Some(TextCallForPrice), None, None, None)

\* <div class="inventory-listing"><a class="title" href="">Sedan</a>
ElSedan ==
    Element("inventory-listing", "a.title", Some(TitleSedan), Some(EmptyUrl),
            None, None, None, None)

\* <div class="vehicle-card"><h2>2019 Honda Accord</h2><a href="../cars/2">
ElAccord ==
    Element("vehicle-card", "h2", Some(TitleAccord),
            Some(Url("", "", <<"..", "cars", "2">>)),
            Some(TextPriceObo), None, None, None)

\* a container without a title element
ElNoTitle ==
    Element("listing", "none", None,
            Some(Url("", "", <<"cars", "3">>)), None, None, None, None)

\* a container without an <a href>
ElNoLink ==
    Element("listing-item", "a.title", Some(TitleAccord), None,
            Some(TextPriceObo), None, None, None)

\* a container whose href is "//[": urljoin raises ValueError
ElBadHref ==
    Element("listing-item", "a.title", Some(TitleDeal),
            Some(Url("", "[", <<"">>)), None, None, None, None)

\* a container whose href is "javascript:void(0)"
ElScript ==
    Element("listing-item", "a.title", Some(TitleSedan),
            Some(Url("javascript", "", <<"void(0)">>)), None, None, None, None)

\* markup that is no listing container
ElOther ==
    Element("other", "h3", Some(TitleCamry), Some(Url("", "", <<"", "about">>)),
            None, None, None, None)

\* markup the parser rejects
ElRejected ==
    Element("<![", "none", None, None, None, None, None, None)

Elements ==
    <<ElCamry, ElDeal, ElSedan, ElAccord, ElNoTitle, ElNoLink, ElBadHref,
      ElScript, ElOther, ElRejected>>

\* the elements short bodies are freely composed of
FreeElements == {ElCamry, ElSedan, ElAccord, ElBadHref, ElOther, ElRejected}

\* longest body made of freely chosen elements
ShortLen == 1

\* longest body of the two regular families below
MaxContainers == 11

RECURSIVE SeqsUpTo(_, _)
SeqsUpTo(S, n) ==
    IF n = 0 THEN {<<>>}
    ELSE LET shorter == SeqsUpTo(S, n - 1)
         IN  shorter \cup {Append(q, x) : q \in {p \in shorter : Len(p) = n - 1}, x \in S}

\* n containers both clients can parse
ValidBody(n) == [i \in 1..n |-> IF i % 2 = 1 THEN ElDeal ELSE ElSedan]

\* n elements cycling through every kind but the rejected one
CycleBody(n) == [i \in 1..n |-> Elements[((i - 1) % (Len(Elements) - 1)) + 1]]

Bodies ==
    SeqsUpTo(FreeElements, ShortLen)
    \cup {ValidBody(n) : n \in 1..MaxContainers}
    \cup {CycleBody(n) : n \in 1..MaxContainers}

Statuses == {200, 404, 500}

Outcomes ==
    {Response(200, "ok", b) : b \in Bodies}
    \cup {Response(200, "error", ValidBody(1))}
    \cup {Response(st, "none", ValidBody(1)) : st \in Statuses \ {200}}
    \cup {Failure("error"), Failure("timeout")}

\* CarDetection: make, model, year (Optional)
Detections ==
    {[make |-> Unknown, model |-> Unknown, year |-> None],
     [make |-> makes[1], model |-> models[1], year |-> Some(2020)]}

\* states of `random` a call of the demo generator may find
RandomSeeds == 2

RandomStates == 0..(RandomSeeds - 1)

\* settings.enable_autotrader, settings.enable_cars_com: the lists __init__ builds
ScraperLists ==
    {(IF at THEN <<AutoTrader>> ELSE <<>>) \o (IF cc THEN <<CarsCom>> ELSE <<>>) :
        at \in BOOLEAN, cc \in BOOLEAN}

----------------------------------------------------------------------------
(* The global orchestrator before any invocation *)

\* settings.max_concurrent_requests
MaxConcurrentRequests == 10

\* settings.user_agent
UserAgent == "FastCarVision/1.0"

\* the client objects __init__ builds: base_url, source and headers
ClientObjects ==
    [s \in Sources |->
        [base_url |-> base_url(s), source |-> source(s),
         headers |-> [user_agent |-> UserAgent, connection |-> "keep-alive"]]]

\* the invocations of scrape_all that may overlap: two requests to /search-cars
CallIds == {1, 2}

\* the frame of an invocation that has not begun
IdleFrame ==
    [pc |-> "Idle", detection |-> None, session |-> 0,
     task |-> [s \in Sources |-> "none"],
     url |-> [s \in Sources |-> None],
     via |-> [s \in Sources |-> 0],
     outcome |-> [s \in Sources |-> None],
     taskResult |-> [s \in Sources |-> None],
     result |-> None]

OverlapIdle ==
    /\ limit = MaxConcurrentRequests
    /\ clients = ClientObjects
    /\ calls = [c \in CallIds |-> IdleFrame]
    /\ sessions = <<>>

----------------------------------------------------------------------------
(* The orchestrator: one scrape_all invocation *)

Enabled(s) == s \in Range(scrapers)

\* how a scrape_all call ended: with a return value, or with an exception
Returned(listings) == [raised |-> FALSE, value |-> listings]

Raised == [raised |-> TRUE, value |-> <<>>]

Init ==
    /\ scrapers \in ScraperLists
    /\ detection = None
    /\ pc = "Idle"
    /\ session = "none"
    /\ task = [s \in Sources |-> "none"]
    /\ gets = [s \in Sources |-> 0]
    /\ outcome = [s \in Sources |-> None]
    /\ html = [s \in Sources |-> None]
    /\ taskResult = [s \in Sources |-> None]
    /\ merged = <<>>
    /\ demoCalls = 0
    /\ result = None
    /\ finished = <<>>
    /\ fn = "none"
    /\ arg = <<>>
    /\ out = None
    /\ OverlapIdle

\* variant: the empty scrapers list is not checked for
ScrapeAllCall_unchecked(d) ==
    /\ pc = "Idle"
    /\ detection' = Some(d)
    /\ session' = "open"
    /\ task' = [s \in Sources |-> IF Enabled(s) THEN "scheduled" ELSE "none"]
    /\ pc' = "Gather"
    /\ UNCHANGED <<scrapers, gets, outcome, html, taskResult, merged, demoCalls,
                   result, finished, fn, arg, out>>
    /\ UNCHANGED overlapVars

\* scrape_all up to its first suspension: lines 260-274
ScrapeAllCall(d) ==
    /\ pc = "Idle"
    /\ detection' = Some(d)
    /\ IF scrapers = <<>>
       THEN /\ result' = Some(Returned(<<>>))
            /\ pc' = "Returned"
            /\ UNCHANGED <<session, task>>
       ELSE /\ session' = "open"
            /\ task' = [s \in Sources |-> IF Enabled(s) THEN "scheduled" ELSE "none"]
            /\ pc' = "Gather"
            /\ UNCHANGED result
    /\ UNCHANGED <<scrapers, gets, outcome, html, taskResult, merged, demoCalls,
                   finished, fn, arg, out>>
    /\ UNCHANGED overlapVars

\* a task runs scrape_listings up to session.get, where it suspends
TaskStart(s) ==
    /\ pc = "Gather"
    /\ task[s] = "scheduled"
    /\ session = "open"
    /\ gets' = [gets EXCEPT ![s] = @ + 1]
    /\ task' = [task EXCEPT ![s] = "fetching"]
    /\ UNCHANGED <<scrapers, detection, pc, session, outcome, html, taskResult,
                   merged, demoCalls, result, finished, fn, arg, out>>
    /\ UNCHANGED overlapVars

\* variant: a fetch that yields no page is tried once more
TaskRespond_retryOnce(s, o) ==
    /\ pc = "Gather"
    /\ task[s] = "fetching"
    /\ IF get_page(o).value = None /\ gets[s] < 2
       THEN /\ task' = [task EXCEPT ![s] = "scheduled"]
            /\ UNCHANGED <<outcome, html, taskResult, finished>>
       ELSE /\ outcome' = [outcome EXCEPT ![s] = Some(o)]
            /\ html' = [html EXCEPT ![s] = Some(get_page(o))]
            /\ taskResult' = [taskResult EXCEPT ![s] = Some(scrape_listings(s, get_page(o)))]
            /\ task' = [task EXCEPT ![s] = "done"]
            /\ finished' = Append(finished, s)
    /\ UNCHANGED <<scrapers, detection, pc, session, gets, merged, demoCalls,
                   result, fn, arg, out>>
    /\ UNCHANGED overlapVars

\* the transport answers: get_page returns and scrape_listings runs to its end
TaskRespond(s, o) ==
    /\ pc = "Gather"
    /\ task[s] = "fetching"
    /\ outcome' = [outcome EXCEPT ![s] = Some(o)]
    /\ html' = [html EXCEPT ![s] = Some(get_page(o))]
    /\ taskResult' = [taskResult EXCEPT ![s] = Some(scrape_listings(s, get_page(o)))]
    /\ task' = [task EXCEPT ![s] = "done"]
    /\ finished' = Append(finished, s)
    /\ UNCHANGED <<scrapers, detection, pc, session, gets, merged, demoCalls,
                   result, fn, arg, out>>
    /\ UNCHANGED overlapVars

\* the task is cancelled while suspended in session.get: CancelledError is no
\* Exception, so neither get_page nor scrape_listings catches it
TaskCancel(s) ==
    /\ pc = "Gather"
    /\ task[s] = "fetching"
    /\ taskResult' = [taskResult EXCEPT ![s] = Some(CancelledResult)]
    /\ task' = [task EXCEPT ![s] = "done"]
    /\ finished' = Append(finished, s)
    /\ UNCHANGED <<scrapers, detection, pc, session, gets, outcome, html, merged,
                   demoCalls, result, fn, arg, out>>
    /\ UNCHANGED overlapVars

\* variant: the results are taken as soon as one task has ended
\* (asyncio.wait with FIRST_COMPLETED); a pending task counts as cancelled
ScrapeAllReturn_firstCompleted(r) ==
    /\ pc = "Gather"
    /\ \E s \in Sources : Enabled(s) /\ task[s] = "done"
    /\ LET results == gather([i \in DOMAIN scrapers |->
                                 IF taskResult[scrapers[i]] = None THEN CancelledResult
                                 ELSE Val(taskResult[scrapers[i]])])
           all_listings == Combine(results.value)
       IN  /\ merged' = all_listings
           /\ demoCalls' = IF NeedsDemo(all_listings) THEN demoCalls + 1 ELSE demoCalls
           /\ result' = Some(Returned(scrape_all_return(all_listings, r)))
    /\ session' = "closed"
    /\ pc' = "Returned"
    /\ UNCHANGED <<scrapers, detection, task, gets, outcome, html, taskResult,
                   finished, fn, arg, out>>
    /\ UNCHANGED overlapVars

\* variant: the results are combined in the order in which the tasks ended
\* (asyncio.as_completed)
ScrapeAllReturn_asCompleted(r) ==
    /\ pc = "Gather"
    /\ \A s \in Sources : Enabled(s) => task[s] = "done"
    /\ LET results == gather([i \in DOMAIN finished |-> Val(taskResult[finished[i]])])
           all_listings == Combine(results.value)
       IN  /\ merged' = all_listings
           /\ demoCalls' = IF NeedsDemo(all_listings) THEN demoCalls + 1 ELSE demoCalls
           /\ result' = Some(Returned(scrape_all_return(all_listings, r)))
    /\ session' = "closed"
    /\ pc' = "Returned"
    /\ UNCHANGED <<scrapers, detection, task, gets, outcome, html, taskResult,
                   finished, fn, arg, out>>
    /\ UNCHANGED overlapVars

\* variant: a search whose sources gave nothing is dispatched once more
ScrapeAllReturn_searchAgain(r) ==
    /\ pc = "Gather"
    /\ \A s \in Sources : Enabled(s) => task[s] = "done"
    /\ LET results == gather([i \in DOMAIN scrapers |-> Val(taskResult[scrapers[i]])])
           all_listings == Combine(results.value)
       IN  IF all_listings = <<>> /\ \A s \in Sources : gets[s] < 2
           THEN /\ task' = [s \in Sources |-> IF Enabled(s) THEN "scheduled" ELSE "none"]
                /\ UNCHANGED <<merged, demoCalls, result, session, pc>>
           ELSE /\ merged' = all_listings
                /\ demoCalls' = IF NeedsDemo(all_listings) THEN demoCalls + 1 ELSE demoCalls
                /\ result' = Some(Returned(scrape_all_return(all_listings, r)))
                /\ session' = "closed"
                /\ pc' = "Returned"
                /\ UNCHANGED task
    /\ UNCHANGED <<scrapers, detection, gets, outcome, html, taskResult,
                   finished, fn, arg, out>>
    /\ UNCHANGED overlapVars

\* gather has every result: lines 276-288 and the exit of `async with`
ScrapeAllReturn(r) ==
    /\ pc = "Gather"
    /\ \A s \in Sources : Enabled(s) => task[s] = "done"
    /\ LET results == gather([i \in DOMAIN scrapers |-> Val(taskResult[scrapers[i]])])
           all_listings == Combine(results.value)
       IN  IF results.raised
           THEN /\ result' = Some(Raised)
                /\ UNCHANGED <<merged, demoCalls>>
           ELSE /\ merged' = all_listings
                /\ demoCalls' = IF NeedsDemo(all_listings) THEN demoCalls + 1 ELSE demoCalls
                /\ result' = Some(Returned(scrape_all_return(all_listings, r)))
    /\ session' = "closed"
    /\ pc' = "Returned"
    /\ UNCHANGED <<scrapers, detection, task, gets, outcome, html, taskResult,
                   finished, fn, arg, out>>
    /\ UNCHANGED overlapVars

Next ==
    \/ \E d \in Detections : ScrapeAllCall(d)
    \/ \E s \in Sources : TaskStart(s)
    \/ \E s \in Sources, o \in Outcomes : TaskRespond(s, o)
    \/ \E s \in Sources : TaskCancel(s)
    \/ \E r \in RandomStates : ScrapeAllReturn(r)

Spec == Init /\ [][Next]_vars

\* one answer of each kind the transport can give to a GET: a page, a body
\* that cannot be read, a status other than 200, a network error, the timeout
LiveOutcomes ==
    {Response(200, "ok", ValidBody(2)), Response(200, "error", ValidBody(1)),
     Response(500, "none", ValidBody(1)), Failure("error"), Failure("timeout")}

NextLive ==
    \/ \E d \in Detections : ScrapeAllCall(d)
    \/ \E s \in Sources : TaskStart(s)
    \/ \E s \in Sources, o \in LiveOutcomes : TaskRespond(s, o)
    \/ \E s \in Sources : TaskCancel(s)
    \/ \E r \in RandomStates : ScrapeAllReturn(r)

\* The event loop runs every task that is ready, so a scheduled task reaches
\* its session.get and a gather whose tasks have all ended resumes scrape_all;
\* ClientTimeout(total=settings.request_timeout) ends every GET, with an
\* answer or with a timeout.
Fairness ==
    /\ \A s \in Sources : WF_vars(TaskStart(s))
    /\ \A s \in Sources : WF_vars(\E o \in LiveOutcomes : TaskRespond(s, o))
    /\ WF_vars(\E r \in RandomStates : ScrapeAllReturn(r))

SpecLive == Init /\ [][NextLive]_vars /\ Fairness

----------------------------------------------------------------------------
(* Overlapping invocations: two requests call scrape_all on the one global *)
(* scraping_orchestrator; each invocation has its own frame (its locals    *)
(* and its tasks), the scrapers list and the client objects are shared.    *)

\* values of settings.max_concurrent_requests a deployment may configure
ConnectionLimits == {1, MaxConcurrentRequests}

\* what the transport may answer to a GET of an overlapping invocation
OverlapOutcomes ==
    {Response(200, "ok", ValidBody(2)), Failure("timeout")}

\* the connections of session k in use: one per task suspended in its GET
InUse(k) ==
    Cardinality({cs \in CallIds \X Sources :
                    /\ calls[cs[1]].task[cs[2]] = "fetching"
                    /\ calls[cs[1]].via[cs[2]] = k})

\* aiohttp.ClientSession(connector=TCPConnector(limit=...)) of invocation c
NewSession(c) == [owner |-> c, state |-> "open", limit |-> limit]

InitOverlap ==
    /\ scrapers \in ScraperLists
    /\ detection = None
    /\ pc = "Idle"
    /\ session = "none"
    /\ task = [s \in Sources |-> "none"]
    /\ gets = [s \in Sources |-> 0]
    /\ outcome = [s \in Sources |-> None]
    /\ html = [s \in Sources |-> None]
    /\ taskResult = [s \in Sources |-> None]
    /\ merged = <<>>
    /\ demoCalls = 0
    /\ result = None
    /\ finished = <<>>
    /\ fn = "none"
    /\ arg = <<>>
    /\ out = None
    /\ limit \in ConnectionLimits
    /\ clients = ClientObjects
    /\ calls = [c \in CallIds |-> IdleFrame]
    /\ sessions = <<>>

\* variant: the orchestrator keeps one session and every invocation uses it
CallStart_sharedSession(c, d) ==
    /\ calls[c].pc = "Idle"
    /\ IF scrapers = <<>>
       THEN /\ calls' = [calls EXCEPT ![c] = [@ EXCEPT !.detection = Some(d),
                                                        !.result = Some(Returned(<<>>)),
                                                        !.pc = "Returned"]]
            /\ UNCHANGED sessions
       ELSE /\ sessions' = IF sessions = <<>> THEN <<NewSession(c)>> ELSE sessions
            /\ calls' = [calls EXCEPT ![c] =
                   [@ EXCEPT !.detection = Some(d),
                             !.session = 1,
                             !.task = [s \in Sources |->
                                          IF Enabled(s) THEN "scheduled" ELSE "none"],
                             !.pc = "Gather"]]
    /\ UNCHANGED <<limit, clients, searchVars>>

\* invocation c of scrape_all up to its first suspension: lines 260-274
CallStart(c, d) ==
    /\ calls[c].pc = "Idle"
    /\ IF scrapers = <<>>
       THEN /\ calls' = [calls EXCEPT ![c] = [@ EXCEPT !.detection = Some(d),
                                                        !.result = Some(Returned(<<>>)),
                                                        !.pc = "Returned"]]
            /\ UNCHANGED sessions
       ELSE /\ sessions' = Append(sessions, NewSession(c))
            /\ calls' = [calls EXCEPT ![c] =
                   [@ EXCEPT !.detection = Some(d),
                             !.session = Len(sessions) + 1,
                             !.task = [s \in Sources |->
                                          IF Enabled(s) THEN "scheduled" ELSE "none"],
                             !.pc = "Gather"]]
    /\ UNCHANGED <<limit, clients, searchVars>>

\* variant: every client has a connector of its own, the limit is per source
CallTaskStart_perSourceLimit(c, s) ==
    /\ calls[c].pc = "Gather"
    /\ calls[c].task[s] = "scheduled"
    /\ sessions[calls[c].session].state = "open"
    /\ calls' = [calls EXCEPT ![c] =
           [@ EXCEPT !.url[s] = Some(build_search_url(s, Val(calls[c].detection))),
                     !.via[s] = calls[c].session,
                     !.task[s] = "fetching"]]
    /\ UNCHANGED <<limit, clients, sessions, searchVars>>

\* the task of client s in invocation c builds its URL and calls session.get
\* on the session it was handed; the GET takes a connection of that session's
\* connector when one is free and waits for one otherwise
CallTaskStart(c, s) ==
    /\ calls[c].pc = "Gather"
    /\ calls[c].task[s] = "scheduled"
    /\ sessions[calls[c].session].state = "open"
    /\ calls' = [calls EXCEPT ![c] =
           [@ EXCEPT !.url[s] = Some(build_search_url(s, Val(calls[c].detection))),
                     !.via[s] = calls[c].session,
                     !.task[s] = IF InUse(calls[c].session) < sessions[calls[c].session].limit
                                 THEN "fetching" ELSE "waiting"]]
    /\ UNCHANGED <<limit, clients, sessions, searchVars>>

\* a connection of the session has become free: the waiting GET takes it
CallTaskConnect(c, s) ==
    /\ calls[c].pc = "Gather"
    /\ calls[c].task[s] = "waiting"
    /\ InUse(calls[c].via[s]) < sessions[calls[c].via[s]].limit
    /\ calls' = [calls EXCEPT ![c] = [@ EXCEPT !.task[s] = "fetching"]]
    /\ UNCHANGED <<limit, clients, sessions, searchVars>>

\* variant: the client keeps its listings in an attribute of its own, which
\* every invocation's task of that client then returns
CallTaskRespond_sharedResult(c, s, o) ==
    /\ calls[c].pc = "Gather"
    /\ \/ calls[c].task[s] = "fetching"
       \/ calls[c].task[s] = "waiting" /\ o.kind = "timeout"
    /\ calls' = [c2 \in CallIds |->
           IF c2 = c
           THEN [calls[c] EXCEPT !.outcome[s] = Some(o),
                                 !.taskResult[s] = Some(scrape_listings(s, get_page(o))),
                                 !.task[s] = "done"]
           ELSE IF calls[c2].taskResult[s] # None
                THEN [calls[c2] EXCEPT !.taskResult[s] = Some(scrape_listings(s, get_page(o)))]
                ELSE calls[c2]]
    /\ UNCHANGED <<limit, clients, sessions, searchVars>>

\* the transport answers the GET of client s in invocation c (the timeout also
\* ends a GET that still waits for a connection): get_page returns, the
\* connection goes back to the connector, scrape_listings runs to its end
CallTaskRespond(c, s, o) ==
    /\ calls[c].pc = "Gather"
    /\ \/ calls[c].task[s] = "fetching"
       \/ calls[c].task[s] = "waiting" /\ o.kind = "timeout"
    /\ calls' = [calls EXCEPT ![c] =
           [@ EXCEPT !.outcome[s] = Some(o),
                     !.taskResult[s] = Some(scrape_listings(s, get_page(o))),
                     !.task[s] = "done"]]
    /\ UNCHANGED <<limit, clients, sessions, searchVars>>

\* gather of invocation c has every result: lines 276-288, and `async with`
\* closes the session on the way out
CallReturn(c, r) ==
    /\ calls[c].pc = "Gather"
    /\ \A s \in Sources : Enabled(s) => calls[c].task[s] = "done"
    /\ LET results == gather([i \in DOMAIN scrapers |->
                                 Val(calls[c].taskResult[scrapers[i]])])
       IN  calls' = [calls EXCEPT ![c] =
               [@ EXCEPT !.result =
                             IF results.raised THEN Some(Raised)
                             ELSE Some(Returned(scrape_all_return(Combine(results.value), r))),
                         !.pc = "Returned"]]
    /\ sessions' = [sessions EXCEPT ![calls[c].session].state = "closed"]
    /\ UNCHANGED <<limit, clients, searchVars>>

\* the request that runs invocation c is cancelled while scrape_all awaits
\* gather: gather cancels the tasks, CancelledError leaves scrape_all through
\* `async with`, which closes the session
CallCancel(c) ==
    /\ calls[c].pc = "Gather"
    /\ calls' = [calls EXCEPT ![c] =
           [@ EXCEPT !.task = [s \in Sources |->
                                  IF calls[c].task[s] \in {"none", "done"}
                                  THEN calls[c].task[s] ELSE "cancelled"],
                     !.result = Some(Raised),
                     !.pc = "Cancelled"]]
    /\ sessions' = [sessions EXCEPT ![calls[c].session].state = "closed"]
    /\ UNCHANGED <<limit, clients, searchVars>>

NextOverlap ==
    \/ \E c \in CallIds, d \in Detections : CallStart(c, d)
    \/ \E c \in CallIds, s \in Sources : CallTaskStart(c, s)
    \/ \E c \in CallIds, s \in Sources : CallTaskConnect(c, s)
    \/ \E c \in CallIds, s \in Sources, o \in OverlapOutcomes : CallTaskRespond(c, s, o)
    \/ \E c \in CallIds, r \in RandomStates : CallReturn(c, r)
    \/ \E c \in CallIds : CallCancel(c)

SpecOverlap == InitOverlap /\ [][NextOverlap]_vars

----------------------------------------------------------------------------
(* The vision pipeline and /process-and-search: vision.py, main.py 76-203 *)

\* confidences are held in hundredths: `confidence > 0.5`, `confidence=0.7`
ConfidenceThreshold == 50

DefaultConfidence == 70

\* 10 * 1024 * 1024 bytes, counted in MB
MaxUploadMB == 10

\* the boxes YOLO reports for one image: at most this many
MaxBoxes == 2

\* self.car_classes: the COCO ids of car, motorcycle, bus, truck
car_classes == {2, 3, 5, 7}

\* make, model, year, body_type, confidence, color of models.CarDetection
CarDetection(make, model, year, body_type, confidence, color) ==
    [make |-> make, model |-> model, year |-> year, body_type |-> body_type,
     confidence |-> confidence, color |-> color]

\* a box of a YOLO result: its class (0 is a person), its confidence and the
\* dominant colour of its crop ("Unknown" when _get_dominant_color fails)
Boxes == [cls : {0, 2}, conf : {ConfidenceThreshold, 90}, color : {"red", "Unknown"}]

\* what self.yolo_model(img_bgr) does: it raises, or yields boxes
YoloAnswers ==
    {[raised |-> TRUE, boxes |-> <<>>]}
    \cup {[raised |-> FALSE, boxes |-> b] : b \in SeqsUpTo(Boxes, MaxBoxes)}

\* the image PIL opened: opening reads the header only; the pixels are read
\* when first needed, which fails for a truncated file
Images == [mode : {"RGB", "L"}, oversized : BOOLEAN, truncated : BOOLEAN]

\* an uploaded file and the vision_model the module holds when it arrives
Uploads ==
    [content_type : {None, Some("image/png"), Some("text/plain")},
     size : {MaxUploadMB, MaxUploadMB + 1},
     decodes : BOOLEAN,
     image : Images,
     vision_model : {"CarVisionModel", "DummyVisionModel"}]

\* preprocess_image: thumbnail and convert read the pixels, no try around them
preprocess_image(image) ==
    IF (image.oversized \/ image.mode # "RGB") /\ image.truncated
    THEN [raised |-> TRUE, value |-> image]
    ELSE [raised |-> FALSE, value |-> [image EXCEPT !.mode = "RGB", !.oversized = FALSE]]

\* detect_cars: vehicles above the confidence threshold; [] on any exception
detect_cars(image, y) ==
    IF image.truncated \/ y.raised THEN <<>>
    ELSE SelectSeq(y.boxes, LAMBDA b : b.cls \in car_classes /\ b.conf > ConfidenceThreshold)

\* classify_car_attributes: placeholders and the dominant colour; the
\* placeholders alone on any exception
classify_car_attributes(image, color) ==
    [make |-> Unknown, model |-> Unknown, year |-> None, body_type |-> "sedan",
     color |-> IF image.truncated THEN "Unknown" ELSE color]

\* the dominant colour of the whole image this model takes
WholeImageColor == "gray"

\* variant: no default detection when nothing was detected
CarVisionModel_process_image_noDefault(image, y) ==
    LET pre == preprocess_image(image)
        detections == detect_cars(pre.value, y)
    IN  IF pre.raised THEN [raised |-> TRUE, value |-> <<>>]
        ELSE [raised |-> FALSE,
              value |-> [i \in DOMAIN detections |->
                  LET attributes == classify_car_attributes(pre.value, detections[i].color)
                  IN  CarDetection(attributes.make, attributes.model, attributes.year,
                                   attributes.body_type, detections[i].conf,
                                   attributes.color)]]

\* CarVisionModel.process_image
CarVisionModel_process_image(image, y) ==
    LET pre == preprocess_image(image)
        detections == detect_cars(pre.value, y)
        car_results ==
            [i \in DOMAIN detections |->
                LET attributes == classify_car_attributes(pre.value, detections[i].color)
                IN  CarDetection(attributes.make, attributes.model, attributes.year,
                                 attributes.body_type, detections[i].conf,
                                 attributes.color)]
        whole == classify_car_attributes(pre.value, WholeImageColor)
    IN  IF pre.raised THEN [raised |-> TRUE, value |-> <<>>]
        ELSE IF car_results = <<>>
        THEN [raised |-> FALSE,
              value |-> <<CarDetection(whole.make, whole.model, whole.year,
                                       whole.body_type, DefaultConfidence, whole.color)>>]
        ELSE [raised |-> FALSE, value |-> car_results]

\* DummyVisionModel.process_image
DummyVisionModel_process_image(image) ==
    [raised |-> FALSE,
     value |-> <<CarDetection(makes[1], models[1], Some(2020), "sedan", 80, "white")>>]

\* vision_model.process_image(image)
process_image(vision_model, image, y) ==
    IF vision_model = "DummyVisionModel" THEN DummyVisionModel_process_image(image)
    ELSE CarVisionModel_process_image(image, y)

HTTPException(status_code, detail) ==
    [status |-> status_code, detail |-> detail, detected_cars |-> <<>>]

ImageUploadResponse(detected_cars) ==
    [status |-> 200, detail |-> "Image processed successfully",
     detected_cars |-> detected_cars]

\* startswith('image/')
IsImageType(content_type) == content_type # None /\ Val(content_type) = "image/png"

\* upload_car_image: what the endpoint answers, or raises, for upload u
upload_car_image(u, y) ==
    IF ~IsImageType(u.content_type)
    THEN HTTPException(400, "File must be an image")
    ELSE IF u.size > MaxUploadMB
    THEN HTTPException(413, "Image file too large (max 10MB)")
    ELSE IF ~u.decodes
    THEN HTTPException(500, "Failed to process image")
    ELSE LET detected_cars == process_image(u.vision_model, u.image, y)
         IN  IF detected_cars.raised
             THEN HTTPException(500, "Failed to process image")
             ELSE ImageUploadResponse(detected_cars.value)

InitPipeline ==
    /\ scrapers \in ScraperLists
    /\ detection = None
    /\ pc = "Idle"
    /\ session = "none"
    /\ task = [s \in Sources |-> "none"]
    /\ gets = [s \in Sources |-> 0]
    /\ outcome = [s \in Sources |-> None]
    /\ html = [s \in Sources |-> None]
    /\ taskResult = [s \in Sources |-> None]
    /\ merged = <<>>
    /\ demoCalls = 0
    /\ result = None
    /\ finished = <<>>
    /\ fn = "none"
    /\ arg \in {Some(u) : u \in Uploads}
    /\ out = None
    /\ OverlapIdle

\* process_image_and_search awaits upload_car_image(file): lines 174, 77-125
UploadCarImage(y) ==
    /\ fn = "none"
    /\ pc = "Idle"
    /\ fn' = "upload_car_image"
    /\ out' = Some(upload_car_image(Val(arg), y))
    /\ UNCHANGED <<scrapers, detection, pc, session, task, gets, outcome, html,
                   taskResult, merged, demoCalls, result, finished, arg>>
    /\ UNCHANGED overlapVars

\* process_image_and_search from the upload's answer on, lines 174-203: an
\* HTTPException of the upload is raised again; an empty detected_cars gives
\* the 400; otherwise search_car_listings(primary_car) calls scrape_all
ProcessAndSearch ==
    /\ fn = "upload_car_image"
    /\ pc = "Idle"
    /\ IF Val(out).status # 200
       THEN /\ fn' = "process_image_and_search"
            /\ UNCHANGED <<scrapers, detection, pc, session, task, gets, outcome, html,
                           taskResult, merged, demoCalls, result, finished, arg, out>>
            /\ UNCHANGED overlapVars
       ELSE IF Val(out).detected_cars = <<>>
       THEN /\ fn' = "process_image_and_search"
            /\ out' = Some(HTTPException(400, "No cars detected in the image"))
            /\ UNCHANGED <<scrapers, detection, pc, session, task, gets, outcome, html,
                           taskResult, merged, demoCalls, result, finished, arg>>
            /\ UNCHANGED overlapVars
       ELSE ScrapeAllCall(Val(out).detected_cars[1])

NextPipeline ==
    \/ \E y \in YoloAnswers : UploadCarImage(y)
    \/ ProcessAndSearch

SpecPipeline == InitPipeline /\ [][NextPipeline]_vars

----------------------------------------------------------------------------
(* The pure helpers on their own: an input text is drawn, a helper applied *)

\* longest freely composed input text
MaxTextLen == 3

TextAlphabet == {"a", "b", " "}

Texts ==
    SeqsUpTo(TextAlphabet, MaxTextLen)
    \cup {TitleCamry, TitleDeal, TitleSedan, TitleAccord,
          <<" ">> \o TitleCamry \o <<" ">>, <<"\t">> \o TitleSedan \o <<"\n">>}

\* the characters price and mileage texts are freely composed of
MoneyAlphabet == {"$", "1", ",", " ", "k"}

Text50K ==
    <<"5", "0", "K">>

Text5kMiles ==
    <<"5", "k", " ", "m", "i", "l", "e", "s">>

TextApprox ==
    <<"A", "p", "p", "r", "o", "x", ",", " ", "4", "5", ",", "0", "0", "0",
      " ", "m", "i", "l", "e", "s">>

TextPriceYear ==
    <<"$", "1", "5", " ", "2", "0", "2", "0", " ", "m", "o", "d", "e", "l">>

TextOneMile ==
    <<"1", "\t", "m", "i", "l", "e">>

MoneyTexts ==
    SeqsUpTo(MoneyAlphabet, MaxTextLen)
    \cup {TextPriceObo, TextCallForPrice, TextMiles, Text50K, Text5kMiles,
          TextApprox, TextPriceYear, TextOneMile}

InitHelpers ==
    /\ scrapers = <<AutoTrader, CarsCom>>
    /\ detection = None
    /\ pc = "Idle"
    /\ session = "none"
    /\ task = [s \in Sources |-> "none"]
    /\ gets = [s \in Sources |-> 0]
    /\ outcome = [s \in Sources |-> None]
    /\ html = [s \in Sources |-> None]
    /\ taskResult = [s \in Sources |-> None]
    /\ merged = <<>>
    /\ demoCalls = 0
    /\ result = None
    /\ finished = <<>>
    /\ fn = "none"
    /\ arg \in Texts \cup MoneyTexts
    /\ out = None
    /\ OverlapIdle

Apply(name, value) ==
    /\ fn = "none"
    /\ fn' = name
    /\ out' = Some(value)
    /\ UNCHANGED <<scrapers, detection, pc, session, task, gets, outcome, html,
                   taskResult, merged, demoCalls, result, finished, arg>>
    /\ UNCHANGED overlapVars

ApplyAutoTraderExtract ==
    Apply("AutoTraderScraper._extract_make_model", AutoTrader_extract_make_model(arg))

ApplyCarsComExtract ==
    Apply("CarsComScraper._extract_make_model", CarsCom_extract_make_model(arg))

ApplyParsePrice == Apply("BaseScraper.parse_price", parse_price(arg))

ApplyParseMileage == Apply("BaseScraper.parse_mileage", parse_mileage(arg))

NextHelpers ==
    \/ ApplyAutoTraderExtract
    \/ ApplyCarsComExtract
    \/ ApplyParsePrice
    \/ ApplyParseMileage

SpecHelpers == InitHelpers /\ [][NextHelpers]_vars

----------------------------------------------------------------------------
(* build_search_url on its own: two detections are drawn, a client builds *)
(* the search URL of each                                                 *)

\* how far the drawn years reach below 1990 and above 2024
YearSpan == 3

UrlYears ==
    {None, Some(0)}
    \cup {Some(y) : y \in (FirstYear - YearSpan)..(FirstYear + 1)}
    \cup {Some(y) : y \in (LastYear - 1)..(LastYear + YearSpan)}

UrlDetections ==
    {[make |-> mk, model |-> mo, year |-> y] :
        mk \in {Unknown, makes[1]}, mo \in {Unknown, models[1], models[6]},
        y \in UrlYears}

InitUrls ==
    /\ scrapers = <<AutoTrader, CarsCom>>
    /\ detection \in {Some(d) : d \in UrlDetections}
    /\ pc = "Idle"
    /\ session = "none"
    /\ task = [s \in Sources |-> "none"]
    /\ gets = [s \in Sources |-> 0]
    /\ outcome = [s \in Sources |-> None]
    /\ html = [s \in Sources |-> None]
    /\ taskResult = [s \in Sources |-> None]
    /\ merged = <<>>
    /\ demoCalls = 0
    /\ result = None
    /\ finished = <<>>
    /\ fn = "none"
    /\ arg \in {Some(d) : d \in UrlDetections}
    /\ out = None
    /\ OverlapIdle

\* client s builds the search URL of the detection and of the second one
BuildSearchUrl(s) ==
    Apply(IF s = AutoTrader THEN "AutoTraderScraper.build_search_url"
          ELSE "CarsComScraper.build_search_url",
          <<build_search_url(s, Val(detection)), build_search_url(s, Val(arg))>>)

NextUrls == \E s \in Sources : BuildSearchUrl(s)

SpecUrls == InitUrls /\ [][NextUrls]_vars

----------------------------------------------------------------------------
(* Vocabulary of the properties *)

\* positions where a whitespace-separated token of t starts
TokenStarts(t) ==
    {i \in 1..Len(t) : t[i] \notin Whitespace /\ (i = 1 \/ t[i - 1] \in Whitespace)}

TokenCount(t) == Cardinality(TokenStarts(t))

\* the k-th whitespace-separated token of t (k from 1, k <= TokenCount(t))
Token(t, k) ==
    LET start == CHOOSE i \in TokenStarts(t) :
                     Cardinality({j \in TokenStarts(t) : j < i}) = k - 1
        stop == CHOOSE j \in start..Len(t) :
                     /\ \A m \in start..j : t[m] \notin Whitespace
                     /\ (j = Len(t) \/ t[j + 1] \in Whitespace)
    IN  SubSeq(t, start, stop)

ExtractApplied ==
    fn \in {"AutoTraderScraper._extract_make_model", "CarsComScraper._extract_make_model"}

----------------------------------------------------------------------------
(* Vocabulary of the orchestrator's properties *)

\* scrape_all has returned a list
Done == pc = "Returned" /\ result # None /\ ~Val(result).raised

\* the list it returned
Result == Val(result).value

\* the listings source s handed to gather (none when it failed or is disabled)
Listings(s) ==
    IF taskResult[s] # None /\ Val(taskResult[s]).kind = "list"
    THEN Val(taskResult[s]).value
    ELSE <<>>

\* the number of listings the real sources produced
RealCount == Len(Listings(AutoTrader)) + Len(Listings(CarsCom))

BySource(listings, src) == SelectSeq(listings, LAMBDA l : l.source = src)

\* the fetch of s completed with status 200 and a body that was read
FetchedOk(s) ==
    /\ outcome[s] # None
    /\ Val(outcome[s]).kind = "response"
    /\ Val(outcome[s]).status = 200
    /\ Val(outcome[s]).read = "ok"

\* s ran and failed: an exception, a cancellation, a non-200 status, a
\* timeout, a network error, an unreadable or an empty body
FetchFailed(s) ==
    /\ Enabled(s)
    /\ task[s] = "done"
    /\ \/ ~FetchedOk(s)
       \/ Val(outcome[s]).body = <<>>
       \/ Val(taskResult[s]).kind # "list"

IsDemo(l) == l.source = "demo"

----------------------------------------------------------------------------
(* C1 *)

\* C1: whatever the enabled sources and their outcomes, scrape_all returns
\* at most 20 listings.
C1_AtMost20 == result # None => Len(Val(result).value) <= 20

\* two sources delivered 10 listings each and the call returned all 20
C1_Witness ==
    /\ Done
    /\ Len(Listings(AutoTrader)) = 10
    /\ Len(Listings(CarsCom)) = 10
    /\ Len(Result) = 20

----------------------------------------------------------------------------
(* C2 *)

\* C2, in a state: a failed source has no listing in the merged sequence nor
\* in the result, and each sibling's listings are all there, in order.
C2_Contributions ==
    Done /\ scrapers # <<>> =>
        \A s \in Sources : FetchFailed(s) =>
            /\ BySource(merged, source(s)) = <<>>
            /\ BySource(Result, source(s)) = <<>>
            /\ \A t \in Sources \ {s} :
                   /\ BySource(merged, source(t)) = Listings(t)
                   /\ BySource(Result, source(t)) = Listings(t)

\* C2, in a step: the step that ends one source's task leaves the other
\* source's task and result as they were (no cross-source cancellation).
C2_NoCrossEffect ==
    \A s \in Sources : \A t \in Sources \ {s} :
        task[s] # "done" /\ task'[s] = "done" =>
            /\ task'[t] = task[t]
            /\ taskResult'[t] = taskResult[t]
            /\ outcome'[t] = outcome[t]

\* C2: a source whose fetch fails contributes no listing and neither cancels
\* nor changes what the other enabled sources contribute.
C2_FailureIsolated == []C2_Contributions /\ [][C2_NoCrossEffect]_vars

\* AutoTrader failed with an exception, Cars.com parsed 3 listings
C2_Witness ==
    /\ Done
    /\ FetchFailed(AutoTrader)
    /\ Val(taskResult[AutoTrader]).kind = "exception"
    /\ Len(Listings(CarsCom)) = 3
    /\ BySource(merged, source(CarsCom)) = Listings(CarsCom)

----------------------------------------------------------------------------
(* C3 *)

\* C3 as stated: with fewer than 5 real listings, demo listings are appended
\* only until the result has 5 listings.
C3_AsStated ==
    Done /\ scrapers # <<>> /\ RealCount < 5 =>
        /\ Len(Result) = 5
        /\ SubSeq(Result, 1, RealCount) = merged
        /\ \A i \in (RealCount + 1)..Len(Result) : IsDemo(Result[i])

\* C3, amended: with k < 5 real listings the result is those k listings
\* followed by exactly 5 demo listings, k + 5 in all (8 when one source fails
\* and the other returns 3).
C3_DemoBatch ==
    Done /\ scrapers # <<>> /\ RealCount < 5 =>
        /\ Len(Result) = RealCount + 5
        /\ SubSeq(Result, 1, RealCount) = merged
        /\ \A i \in (RealCount + 1)..Len(Result) : IsDemo(Result[i])
        /\ \A i \in 1..RealCount : ~IsDemo(Result[i])

\* one source failed, the other returned 3 listings, the result has 8
C3_Witness ==
    /\ Done
    /\ \E s \in Sources : \E t \in Sources \ {s} :
           FetchFailed(s) /\ Listings(s) = <<>> /\ Len(Listings(t)) = 3
    /\ Len(Result) = 8

----------------------------------------------------------------------------
(* C4 *)

\* C4: with fewer than 5 real listings every listing of the result after them
\* has source "demo", and no listing of a real source has source "demo" or "".
C4_DemoTagged ==
    /\ Done /\ RealCount < 5 =>
           \A i \in (RealCount + 1)..Len(Result) : Result[i].source = "demo"
    /\ \A s \in Sources : \A i \in DOMAIN Listings(s) :
           Listings(s)[i].source \notin {"demo", ""}
    /\ Done => \A i \in 1..RealCount : Result[i].source \notin {"demo", ""}

\* a result with real listings followed by demo listings
C4_Witness ==
    /\ Done
    /\ RealCount \in 1..4
    /\ Len(Result) > RealCount
    /\ Result[RealCount + 1].source = "demo"
    /\ Result[1].source \in Sources

----------------------------------------------------------------------------
(* C5 *)

NonEmptyAbsolute(u) ==
    /\ u # EmptyUrl
    /\ u.scheme # ""
    /\ u.scheme \in {"http", "https"} => u.netloc # ""

PlainSegments(path) == \A i \in DOMAIN path : path[i] \notin {"", ".", ".."}

\* url is href resolved against base, for the hrefs the claim names: the
\* empty string, an absolute URL, a path from the root, a relative path
Resolves(base, href, url) ==
    /\ href = EmptyUrl => url = base
    /\ href.scheme # "" /\ href.netloc # "" => url = href
    /\ href.scheme = "" /\ href.netloc = "" /\ Len(href.path) > 1
           /\ href.path[1] = "" /\ PlainSegments(Tail(href.path))
           => url = Url(base.scheme, base.netloc, href.path)
    /\ href.scheme = "" /\ href.netloc = "" /\ PlainSegments(href.path)
           => url = Url(base.scheme, base.netloc, <<"">> \o href.path)

\* the containers of the fetched page that s turns into listings
ParsedElements(s) ==
    SelectSeq(Take(SelectSeq(Val(outcome[s]).body, LAMBDA e : MatchesContainer(s, e)), 10),
              LAMBDA e : /\ TitleElem(s, e) # None
                         /\ e.href # None
                         /\ ~UrlRaises(Val(e.href)))

----------------------------------------------------------------------------
(* C6 *)

\* C6: with no enabled source, a call of scrape_all has returned the empty
\* list at once: no session, no task, no GET, no demo listing, no exception.
C6_NoSources ==
    scrapers = <<>> /\ pc # "Idle" =>
        /\ pc = "Returned"
        /\ result = Some(Returned(<<>>))
        /\ session = "none"
        /\ \A s \in Sources : gets[s] = 0 /\ task[s] = "none" /\ outcome[s] = None
        /\ demoCalls = 0

\* scrape_all was called with no enabled source
C6_Witness == scrapers = <<>> /\ pc = "Returned" /\ detection # None

----------------------------------------------------------------------------
(* C7 *)

\* C7 as stated: for every configuration of enabled sources, fewer than 5
\* real listings means the result is supplemented with demo listings and is
\* not empty.
C7_AsStated ==
    Done /\ RealCount < 5 =>
        /\ Result # <<>>
        /\ \E i \in DOMAIN Result : IsDemo(Result[i])

\* C7, amended: with at least one enabled source, fewer than 5 real listings
\* means the result is supplemented with demo listings, and the result is
\* never empty.
C7_Supplemented ==
    Done /\ scrapers # <<>> =>
        /\ Result # <<>>
        /\ RealCount < 5 =>
               /\ Len(Result) > RealCount
               /\ \E i \in DOMAIN Result : IsDemo(Result[i])

\* 4 real listings from two sources were supplemented
C7_Witness ==
    /\ Done
    /\ Len(scrapers) = 2
    /\ Listings(AutoTrader) # <<>>
    /\ Listings(CarsCom) # <<>>
    /\ RealCount = 4
    /\ IsDemo(Result[5])

----------------------------------------------------------------------------
(* C8 *)

\* C8: scrape_all ends by returning a list whatever each source's task ended
\* with (a list, an exception, a cancellation); when every enabled source
\* failed, the result holds demo listings only.
C8_NeverRaises ==
    pc = "Returned" =>
        /\ result # None
        /\ ~Val(result).raised
        /\ (scrapers # <<>> /\ \A s \in Sources : Enabled(s) => FetchFailed(s)) =>
               /\ Result # <<>>
               /\ \A i \in DOMAIN Result : IsDemo(Result[i])

\* one task ended with an exception, the other was cancelled
C8_Witness ==
    /\ Done
    /\ Len(scrapers) = 2
    /\ {Val(taskResult[s]).kind : s \in Sources} = {"exception", "cancelled"}
    /\ Len(Result) = 5

----------------------------------------------------------------------------
(* C9 *)

\* C9: get_page does not raise; it returns the body exactly when the GET
\* completed with status 200 and the body was read, and None for any other
\* status, a network error, a timeout or a failed read.
C9_GetPage ==
    \A s \in Sources : html[s] # None =>
        /\ ~Val(html[s]).raised
        /\ IF FetchedOk(s)
           THEN Val(html[s]).value = Some(Val(outcome[s]).body)
           ELSE Val(html[s]).value = None

\* one get_page answered None to a 404, the other a body to a 200
C9_Witness ==
    /\ html[AutoTrader] # None /\ html[CarsCom] # None
    /\ Val(outcome[AutoTrader]).kind = "response"
    /\ Val(outcome[AutoTrader]).status = 404
    /\ Val(html[AutoTrader]).value = None
    /\ FetchedOk(CarsCom)
    /\ Val(html[CarsCom]).value = Some(ValidBody(3))

----------------------------------------------------------------------------
(* C10 *)

\* C10 as stated: the heuristic answers ("Unknown","Unknown") for every title
\* with fewer than 2 tokens and for the title "Great Deal", and the AutoTrader
\* client answers ("Toyota","Camry") for "2020 Toyota Camry LE".
C10_AsStated ==
    /\ ExtractApplied /\ TokenCount(arg) < 2 => Val(out) = <<Unknown, Unknown>>
    /\ ExtractApplied /\ arg = TitleDeal => Val(out) = <<Unknown, Unknown>>
    /\ fn = "AutoTraderScraper._extract_make_model" /\ arg = TitleCamry
           => Val(out) = <<makes[1], models[1]>>

\* C10, amended: the heuristic answers ("Unknown","Unknown") for every title
\* with fewer than 2 tokens; "Great Deal" has two tokens and yields
\* ("Deal","Unknown") at AutoTrader and ("Great","Deal") at Cars.com; at
\* AutoTrader the make is the 2nd token and the model the 3rd (or "Unknown"
\* when there is none), so "2020 Toyota Camry LE" yields ("Toyota","Camry").
C10_MakeModelHeuristic ==
    /\ ExtractApplied /\ TokenCount(arg) < 2 => Val(out) = <<Unknown, Unknown>>
    /\ fn = "AutoTraderScraper._extract_make_model" /\ TokenCount(arg) >= 2
           => Val(out) = <<Token(arg, 2),
                           IF TokenCount(arg) >= 3 THEN Token(arg, 3) ELSE Unknown>>
    /\ fn = "CarsComScraper._extract_make_model" /\ TokenCount(arg) >= 2
           => Val(out) = <<Token(arg, 1), Token(arg, 2)>>
    /\ fn = "AutoTraderScraper._extract_make_model" /\ arg = TitleDeal
           => Val(out) = <<<<"D", "e", "a", "l">>, Unknown>>
    /\ fn = "CarsComScraper._extract_make_model" /\ arg = TitleDeal
           => Val(out) = <<<<"G", "r", "e", "a", "t">>, <<"D", "e", "a", "l">>>>
    /\ fn = "AutoTraderScraper._extract_make_model" /\ arg = TitleCamry
           => Val(out) = <<makes[1], models[1]>>

\* the AutoTrader heuristic has been applied to "2020 Toyota Camry LE"
C10_Witness ==
    /\ fn = "AutoTraderScraper._extract_make_model"
    /\ arg = TitleCamry
    /\ out = Some(<<makes[1], models[1]>>)

----------------------------------------------------------------------------
(* Vocabulary of the parsers' properties *)

PriceApplied == fn = "BaseScraper.parse_price"

MileageApplied == fn = "BaseScraper.parse_mileage"

\* what the applied parser returned: None or Some(text)
Parsed == Val(out)

GroupChar(c) == c \in Digits \cup {","}

\* t[i..j] is a maximal run of digits and thousand separators
GroupAt(t, i, j) ==
    /\ i \in 1..Len(t) /\ j \in i..Len(t)
    /\ \A k \in i..j : GroupChar(t[k])
    /\ i = 1 \/ ~GroupChar(t[i - 1])
    /\ j = Len(t) \/ ~GroupChar(t[j + 1])

\* t[i..j] is a currency token: '$' and the digits and separators after it
CurrencyTokenAt(t, i, j) ==
    /\ i \in 1..Len(t) /\ j \in (i + 1)..Len(t)
    /\ t[i] = "$"
    /\ \A k \in (i + 1)..j : GroupChar(t[k])
    /\ j = Len(t) \/ ~GroupChar(t[j + 1])

HasCurrencyToken(t) == \E i, j \in 1..Len(t) : CurrencyTokenAt(t, i, j)

\* r is the first currency token occurring in t
FirstCurrencyToken(t, r) ==
    \E i, j \in 1..Len(t) :
        /\ CurrencyTokenAt(t, i, j)
        /\ \A i2 \in 1..(i - 1), j2 \in 1..Len(t) : ~CurrencyTokenAt(t, i2, j2)
        /\ r = SubSeq(t, i, j)

HasDigit(t) == \E i \in DOMAIN t : t[i] \in Digits

\* w occurs in t
Contains(t, w) ==
    \E i \in 1..(Len(t) - Len(w) + 1) : SubSeq(t, i, i + Len(w) - 1) = w

\* r is the first digit group of t with what may follow it: k or K, the word
\* mile or miles after optional whitespace
FirstMileageToken(t, r) ==
    \E i, j \in 1..Len(t) : \E e \in j..Len(t) :
        /\ GroupAt(t, i, j) /\ HasDigit(SubSeq(t, i, j))
        /\ \A i2 \in 1..(i - 1), j2 \in 1..Len(t) :
               ~(GroupAt(t, i2, j2) /\ HasDigit(SubSeq(t, i2, j2)))
        /\ r = SubSeq(t, i, e)
        /\ \A k \in (j + 1)..e : ~GroupChar(t[k])

----------------------------------------------------------------------------
(* C11 *)

\* C11: parse_price returns None for the empty text and for every text
\* without a '$'-prefixed numeric token (such as "Call for price"), and
\* "$15,999" for "Price: $15,999 OBO".
C11_AsStated ==
    PriceApplied =>
        /\ arg = <<>> => Parsed = None
        /\ ~HasCurrencyToken(arg) => Parsed = None
        /\ arg = TextCallForPrice => Parsed = None
        /\ arg = TextPriceObo => Parsed = Some(prices[1])

----------------------------------------------------------------------------
(* C12 *)

\* C12: parse_mileage returns None for the empty text and for every text
\* without a digit; otherwise it returns the first digit-group token of the
\* text with an optional k/K or mile/miles after it, and for "45,000 miles"
\* a match containing "45,000".
C12_AsStated ==
    MileageApplied =>
        /\ arg = <<>> => Parsed = None
        /\ ~HasDigit(arg) => Parsed = None
        /\ HasDigit(arg) => Parsed # None /\ FirstMileageToken(arg, Val(Parsed))
        /\ arg = TextMiles
               => Parsed # None /\ Contains(Val(Parsed), SubSeq(TextMiles, 1, 6))

----------------------------------------------------------------------------
(* C13 *)

\* a dispatched source operation that has not reached a terminal state
Pending(s) == Enabled(s) /\ task[s] \in {"scheduled", "fetching"}

\* C13: while a dispatched source operation is pending nothing is merged or
\* returned, and once scrape_all has merged and returned, every dispatched
\* operation has ended with a list or a failure.
C13_MergeAfterAll ==
    /\ (\E s \in Sources : Pending(s)) =>
           pc = "Gather" /\ merged = <<>> /\ result = None /\ demoCalls = 0
    /\ pc = "Returned" /\ scrapers # <<>> =>
           \A s \in Sources : Enabled(s) =>
               /\ task[s] = "done"
               /\ taskResult[s] # None
               /\ Val(taskResult[s]).kind \in {"list", "exception", "cancelled"}

\* the fast source had its 3 listings while the slow one was still fetching,
\* and nothing was merged yet
C13_Witness ==
    /\ pc = "Gather"
    /\ task[AutoTrader] = "fetching"
    /\ task[CarsCom] = "done"
    /\ Len(Listings(CarsCom)) = 3
    /\ merged = <<>> /\ result = None

----------------------------------------------------------------------------
(* C14 *)

\* C14: the merged sequence is AutoTrader's listings followed by Cars.com's,
\* whichever task ended first, each list whole and in its own order, with
\* nothing dropped as a duplicate: the merged count is the sum of the counts.
C14_MergeOrder ==
    Done /\ scrapers # <<>> =>
        /\ merged = Listings(AutoTrader) \o Listings(CarsCom)
        /\ Len(merged) = Len(Listings(AutoTrader)) + Len(Listings(CarsCom))
        /\ \A i \in 1..Len(merged) : \A j \in 1..Len(merged) :
               merged[i].source = source(CarsCom) /\ merged[j].source = source(AutoTrader)
                   => j < i

\* Cars.com ended first, yet AutoTrader's listings come first; Cars.com's list
\* holds the same listing twice and both copies are in the merged sequence
C14_Witness ==
    /\ Done
    /\ finished = <<CarsCom, AutoTrader>>
    /\ Len(Listings(AutoTrader)) = 2
    /\ Len(Listings(CarsCom)) = 3
    /\ Listings(CarsCom)[1] = Listings(CarsCom)[3]
    /\ merged[1].source = source(AutoTrader)
    /\ merged[3] = merged[5]

----------------------------------------------------------------------------
(* C15 *)

\* the length of the merged-then-supplemented sequence
SupplementedLen == Len(merged) + 5 * demoCalls

\* C15: the result is the first min(20, n) listings of the merged sequence
\* followed by the demo listings (n in all): it starts with the merged
\* listings, real listings precede all demo listings, and nothing but a tail
\* is cut.
C15_Prefix ==
    Done =>
        /\ Len(Result) = (IF SupplementedLen < 20 THEN SupplementedLen ELSE 20)
        /\ \A i \in 1..Len(Result) : i <= Len(merged) => Result[i] = merged[i]
        /\ \A i \in 1..Len(Result) : i > Len(merged) => IsDemo(Result[i])
        /\ \A i \in 1..Len(Result) : \A j \in 1..Len(Result) :
               IsDemo(Result[i]) /\ ~IsDemo(Result[j]) => j < i

\* 4 real listings were supplemented: the result is the 4 followed by 5 demo
\* listings
C15_Witness ==
    /\ Done
    /\ Len(merged) = 4
    /\ Len(Result) = 9
    /\ SubSeq(Result, 1, 4) = merged
    /\ IsDemo(Result[5]) /\ IsDemo(Result[9])

----------------------------------------------------------------------------
(* C16 *)

\* C16: a result of parse_price other than None is the first currency token
\* occurring in the input: a contiguous piece of the input made of '$' and the
\* digits and thousand separators right after it, and nothing that follows
\* the token after a space.
C16_AsStated ==
    PriceApplied /\ Parsed # None => FirstCurrencyToken(arg, Val(Parsed))

----------------------------------------------------------------------------
(* Vocabulary of the search URLs' properties *)

AutoTraderBuilt == fn = "AutoTraderScraper.build_search_url"

CarsComBuilt == fn = "CarsComScraper.build_search_url"

\* the URL built for the detection, and the one built for the second detection
BuiltUrl == Val(out)[1]

OtherUrl == Val(out)[2]

\* t.split(sep) for a one-character sep: the pieces between the separators
RECURSIVE SplitOn(_, _)
SplitOn(t, sep) ==
    IF \A i \in DOMAIN t : t[i] # sep THEN <<t>>
    ELSE LET first == CHOOSE i \in DOMAIN t : t[i] = sep /\ \A k \in 1..(i - 1) : t[k] # sep
         IN  <<SubSeq(t, 1, first - 1)>> \o SplitOn(SubSeq(t, first + 1, Len(t)), sep)

\* the query string of url: what follows the first '?'
QueryOf(url) ==
    LET q == CHOOSE i \in DOMAIN url : url[i] = "?" /\ \A k \in 1..(i - 1) : url[k] # "?"
    IN  SubSeq(url, q + 1, Len(url))

\* the key=value items of the query string, as written in the URL
QueryItems(url) ==
    LET items == SplitOn(QueryOf(url), "&")
    IN  [i \in DOMAIN items |-> SplitOn(items[i], "=")]

HasParam(url, key) == \E i \in DOMAIN QueryItems(url) : QueryItems(url)[i][1] = key

ParamValue(url, key) ==
    QueryItems(url)[CHOOSE i \in DOMAIN QueryItems(url) : QueryItems(url)[i][1] = key][2]

\* the number a text of decimal digits denotes
RECURSIVE Number(_)
Number(t) ==
    IF t = <<>> THEN 0
    ELSE 10 * Number(SubSeq(t, 1, Len(t) - 1))
         + (CHOOSE n \in 0..9 : ToString(n) = t[Len(t)])

\* x clamped to the manufacturing range
Clamp(x) == IF x < 1990 THEN 1990 ELSE IF x > 2024 THEN 2024 ELSE x

\* "makes[]" as it is written in a query string
EncodedKeyMakes == <<"m", "a", "k", "e", "s", "%", "5", "B", "%", "5", "D">>

----------------------------------------------------------------------------
(* C17 *)

\* C17: for a detection with year y the AutoTrader URL carries startYear and
\* endYear, the clamped y-2 and y+2, both within 1990..2024 and startYear <=
\* endYear; for a detection without a year it carries neither.
C17_AsStated ==
    AutoTraderBuilt =>
        LET d == Val(detection)
        IN  IF d.year # None
            THEN /\ HasParam(BuiltUrl, KeyStartYear)
                 /\ HasParam(BuiltUrl, KeyEndYear)
                 /\ LET a == Number(ParamValue(BuiltUrl, KeyStartYear))
                        b == Number(ParamValue(BuiltUrl, KeyEndYear))
                    IN  /\ a \in 1990..2024 /\ b \in 1990..2024
                        /\ a <= b
                        /\ a = Clamp(Val(d.year) - 2)
                        /\ b = Clamp(Val(d.year) + 2)
            ELSE /\ ~HasParam(BuiltUrl, KeyStartYear)
                 /\ ~HasParam(BuiltUrl, KeyEndYear)

----------------------------------------------------------------------------
(* C18 *)

\* C18 as stated: a make or model that is "Unknown" has no parameter in the
\* built URL, and the URL does not contain "Unknown".
C18_AsStated ==
    AutoTraderBuilt \/ CarsComBuilt =>
        LET d == Val(detection)
        IN  /\ d.make = Unknown =>
                   /\ ~HasParam(BuiltUrl, KeyMakeCodeList)
                   /\ ~HasParam(BuiltUrl, EncodedKeyMakes)
            /\ d.model = Unknown => ~HasParam(BuiltUrl, KeyModelCodeList)
            /\ ~Contains(BuiltUrl, Unknown)

\* C18, amended: a make or model that is "Unknown" is never sent literally:
\* AutoTrader keeps makeCodeList and modelCodeList in the URL with an empty
\* value, Cars.com leaves makes[] out (and never sends a model), and the URL
\* does not contain "Unknown".
C18_NotSentLiterally ==
    /\ AutoTraderBuilt =>
           LET d == Val(detection)
           IN  /\ HasParam(BuiltUrl, KeyMakeCodeList)
               /\ HasParam(BuiltUrl, KeyModelCodeList)
               /\ d.make = Unknown => ParamValue(BuiltUrl, KeyMakeCodeList) = <<>>
               /\ d.model = Unknown => ParamValue(BuiltUrl, KeyModelCodeList) = <<>>
               /\ ~Contains(BuiltUrl, Unknown)
    /\ CarsComBuilt =>
           LET d == Val(detection)
           IN  /\ d.make = Unknown => ~HasParam(BuiltUrl, EncodedKeyMakes)
               /\ \A i \in DOMAIN QueryItems(BuiltUrl) :
                      Len(QueryItems(BuiltUrl)[i][1]) >= 5
                          => SubSeq(QueryItems(BuiltUrl)[i][1], 1, 5) # <<"m", "o", "d", "e", "l">>
               /\ ~Contains(BuiltUrl, Unknown)

\* AutoTrader built the URL of a detection with an unknown make and the model
\* "3 Series": makeCodeList is there, empty, and modelCodeList is "3+SERIES"
C18_Witness ==
    /\ AutoTraderBuilt
    /\ Val(detection).make = Unknown
    /\ Val(detection).model = models[6]
    /\ ParamValue(BuiltUrl, KeyMakeCodeList) = <<>>
    /\ ParamValue(BuiltUrl, KeyModelCodeList) = <<"3", "+", "S", "E", "R", "I", "E", "S">>

----------------------------------------------------------------------------
(* C19 *)

\* the two detections differ in a known make, a known model or a present year
Differ(d1, d2) ==
    \/ d1.make # Unknown /\ d2.make # Unknown /\ d1.make # d2.make
    \/ d1.model # Unknown /\ d2.model # Unknown /\ d1.model # d2.model
    \/ d1.year # None /\ d2.year # None /\ d1.year # d2.year

\* C19: for each client, two detections that differ in a known make, a known
\* model or a present year get different search URLs.
C19_AsStated ==
    AutoTraderBuilt \/ CarsComBuilt =>
        (Differ(Val(detection), Val(arg)) => BuiltUrl # OtherUrl)

----------------------------------------------------------------------------
(* C20 *)

\* the first 10 candidate containers of the page s fetched
Candidates(s) ==
    Take(SelectSeq(Val(outcome[s]).body, LAMBDA e : MatchesContainer(s, e)), 10)

\* C20: of a fetched page, scrape_listings returns one listing for each of the
\* first 10 containers that has a title element and a link and parses without
\* error, in document order, and nothing else: each listing is what its own
\* container yields, whatever the containers around it, and there are at
\* most 10.
C20_PerElement ==
    \A s \in Sources :
        FetchedOk(s) /\ Val(taskResult[s]).kind = "list" =>
            /\ Len(Listings(s)) = Len(ParsedElements(s))
            /\ Len(Listings(s)) <= 10
            /\ \A i \in DOMAIN Listings(s) :
                   /\ Listings(s)[i] = Val(parse_listing(s, ParsedElements(s)[i]))
                   /\ Listings(s)[i].title = get_text(Val(ParsedElements(s)[i].title))
                   /\ Listings(s)[i].source = source(s)

\* AutoTrader's page had 11 containers and gave 10 listings; Cars.com's page
\* had containers without a title, without a link and with an href that
\* raises, and gave the listings of the containers before and after them
C20_Witness ==
    /\ FetchedOk(AutoTrader) /\ FetchedOk(CarsCom)
    /\ Val(outcome[AutoTrader]).body = ValidBody(11)
    /\ Len(Listings(AutoTrader)) = 10
    /\ Val(outcome[CarsCom]).body = CycleBody(9)
    /\ Len(Candidates(CarsCom)) = 8
    /\ Len(Listings(CarsCom)) = 4
    /\ Listings(CarsCom)[3].title = TitleAccord
    /\ Listings(CarsCom)[4].listing_url = Url("javascript", "", <<"void(0)">>)

----------------------------------------------------------------------------
(* C21 *)

\* the fetch of s was answered and gave no page
FetchGaveNothing(s) == outcome[s] # None /\ ~FetchedOk(s)

\* C21, in a state: no source has issued more than one GET, a source that is
\* not enabled none; when scrape_all has returned, every enabled source has
\* issued exactly one; a source whose fetch failed has yielded the empty list.
C21_OneGet ==
    /\ \A s \in Sources : gets[s] <= 1 /\ (~Enabled(s) => gets[s] = 0)
    /\ pc = "Returned" /\ scrapers # <<>> => \A s \in Sources : Enabled(s) => gets[s] = 1
    /\ \A s \in Sources : FetchGaveNothing(s) => taskResult[s] = Some(ListResult(<<>>))

\* C21, in a step: once a source's fetch has been answered, it issues no
\* further request.
C21_NoFurtherGet ==
    \A s \in Sources : outcome[s] # None => gets'[s] = gets[s] /\ task'[s] = task[s]

\* C21: there is no retry: each enabled source issues exactly one GET in a
\* search, and after a failed fetch it issues none and yields the empty list.
C21_NoRetry == []C21_OneGet /\ [][C21_NoFurtherGet]_vars

\* AutoTrader's only GET timed out, Cars.com's got a 500: both yielded []
C21_Witness ==
    /\ Done
    /\ outcome[AutoTrader] # None /\ outcome[CarsCom] # None
    /\ Val(outcome[AutoTrader]).kind = "timeout"
    /\ Val(outcome[CarsCom]).status = 500
    /\ gets[AutoTrader] = 1 /\ gets[CarsCom] = 1
    /\ Listings(AutoTrader) = <<>> /\ Listings(CarsCom) = <<>>

\* the tasks of invocation c that hold, or wait for, a connection
Fetching(c) == {s \in Sources : calls[c].task[s] = "fetching"}

Waiting(c) == {s \in Sources : calls[c].task[s] = "waiting"}

\* the sessions that were opened so far
Opened == DOMAIN sessions

SessionsOf(c) == {k \in Opened : sessions[k].owner = c}

\* invocation c has entered scrape_all / has left it
Started(c) == calls[c].pc # "Idle"

Exited(c) == calls[c].pc \in {"Returned", "Cancelled"}

\* C23: an invocation with at least one enabled source creates exactly one
\* session (one without sources creates none), every GET of its clients goes
\* through that session, the session is open while the invocation gathers and
\* closed once it has left scrape_all, by return or by cancellation, and no
\* session serves two invocations.
C23_OneSessionPerCall ==
    /\ \A c \in CallIds :
          /\ ~Started(c) \/ scrapers = <<>> => SessionsOf(c) = {}
          /\ Started(c) /\ scrapers # <<>> =>
                /\ SessionsOf(c) = {calls[c].session}
                /\ \A s \in Sources :
                      calls[c].url[s] # None => calls[c].via[s] = calls[c].session
                /\ calls[c].pc = "Gather" => sessions[calls[c].session].state = "open"
                /\ Exited(c) => sessions[calls[c].session].state = "closed"
    /\ \A k \in Opened : Cardinality({c \in CallIds : calls[c].session = k}) = 1

\* the first search has returned and its session is closed; the second, begun
\* afterwards or meanwhile, fetches from both sources through a session of its
\* own
C23_Witness ==
    /\ calls[1].pc = "Returned"
    /\ calls[1].session \in Opened
    /\ sessions[calls[1].session].state = "closed"
    /\ calls[2].pc = "Gather"
    /\ Fetching(2) = {AutoTrader, CarsCom}
    /\ calls[2].session # calls[1].session
    /\ sessions[calls[2].session].state = "open"

\* the list invocation c returned, and the real listings in it
ResultOf(c) == Val(calls[c].result).value

RealOf(c) == SelectSeq(ResultOf(c), LAMBDA l : ~IsDemo(l))

CallDone(c) ==
    calls[c].pc = "Returned" /\ calls[c].result # None /\ ~Val(calls[c].result).raised

\* what the clients make of invocation c's own fetch outcomes, in scrapers order
OwnListings(c) ==
    Combine([i \in DOMAIN scrapers |->
                scrape_listings(scrapers[i], get_page(Val(calls[c].outcome[scrapers[i]])))])

\* C25, in a state: every URL an invocation requested is the one built from
\* its own detection, and the real listings an invocation returned are those
\* its clients parse from its own fetch outcomes, whatever the other
\* invocation asked for, was answered, or returned.
C25_OwnInputsOnly ==
    \A c \in CallIds :
       /\ \A s \in Sources :
             calls[c].url[s] # None =>
                calls[c].url[s] = Some(build_search_url(s, Val(calls[c].detection)))
       /\ CallDone(c) => RealOf(c) = OwnListings(c)

\* C25, in a step: the scrapers list and every client's base_url, source and
\* headers stay as they were constructed.
C25_ConfigUnchanged == scrapers' = scrapers /\ clients' = clients /\ clients = ClientObjects

\* C25: scrape_all and the clients' operations leave the orchestrator's
\* scrapers list and the clients' configuration unchanged, and of two
\* overlapping invocations each returns the real listings determined by its
\* own detection and its own fetch outcomes, in every interleaving.
C25_Independent == []C25_OwnInputsOnly /\ [][C25_ConfigUnchanged]_vars

\* two searches for different cars overlap: the first has returned the two
\* listings of its AutoTrader page while the second, whose AutoTrader fetch
\* timed out, is still gathering
C25_Witness ==
    /\ Enabled(AutoTrader)
    /\ CallDone(1) /\ calls[2].pc = "Gather"
    /\ calls[1].detection # calls[2].detection
    /\ calls[1].outcome[AutoTrader] = Some(Response(200, "ok", ValidBody(2)))
    /\ calls[2].outcome[AutoTrader] = Some(Failure("timeout"))
    /\ Len(BySource(RealOf(1), source(AutoTrader))) = 2
    /\ calls[2].taskResult[AutoTrader] = Some(ListResult(<<>>))

\* the phase of the search: Idle before the call; Dispatching while a source
\* operation has been created and has not yet issued its fetch; Collecting
\* while gather awaits the operations, all of them begun; Merged once the
\* results were combined and scrape_all has returned
Phase ==
    IF pc = "Idle" THEN "Idle"
    ELSE IF pc = "Returned" THEN "Merged"
    ELSE IF \E s \in Sources : Enabled(s) /\ task[s] = "scheduled" THEN "Dispatching"
    ELSE "Collecting"

Rank(p) ==
    CASE p = "Idle" -> 0 [] p = "Dispatching" -> 1 [] p = "Collecting" -> 2
      [] p = "Merged" -> 3

\* C24, in a step: a search with at least one source stays in its phase or
\* moves to the next one; it never moves back and never skips a phase.
C24_NextPhase ==
    scrapers # <<>> => Rank(Phase)' \in {Rank(Phase), Rank(Phase) + 1}

\* C24, in a state: Merged is terminal: the call has returned a value and
\* every source operation has ended.
C24_MergedIsLast ==
    scrapers # <<>> /\ Phase = "Merged" =>
       /\ result # None
       /\ \A s \in Sources : Enabled(s) => task[s] = "done"

\* C24: every search with at least one enabled source passes through Idle,
\* Dispatching, Collecting, Merged in that order without going back, and when
\* every fetch ends, with an answer or with its timeout, a dispatched search
\* reaches Merged and returns to the caller.
C24_Phases ==
    /\ [][C24_NextPhase]_vars
    /\ []C24_MergedIsLast
    /\ (Phase = "Dispatching" ~> (Phase = "Merged" /\ result # None))

\* a search over both sources has reached Merged although AutoTrader's fetch
\* ran into the timeout: Cars.com's page was read, the call returned
C24_Witness ==
    /\ scrapers = <<AutoTrader, CarsCom>>
    /\ Phase = "Merged" /\ Done
    /\ outcome[AutoTrader] = Some(Failure("timeout"))
    /\ FetchedOk(CarsCom)

----------------------------------------------------------------------------
(* C26 *)

\* https://example.com/listing/{i}
DemoUrl(i) == Url("https", "example.com", <<"", "listing", ToString(i)>>)

HasDemo(listings) == \E i \in DOMAIN listings : IsDemo(listings[i])

\* C26: with at least one source enabled the result has at least 5 listings;
\* it holds demo listings exactly when the sources produced fewer than 5, and
\* then it is the k real listings followed by exactly 5 demo listings, k + 5
\* in all (5 to 9), whose URLs are https://example.com/listing/0 to /4 in
\* that order.
C26_DemoSupplement ==
    Done /\ scrapers # <<>> =>
        /\ Len(Result) >= DemoThreshold
        /\ HasDemo(Result) <=> RealCount < DemoThreshold
        /\ RealCount < DemoThreshold =>
              /\ Len(Result) = RealCount + 5
              /\ Len(Result) \in 5..9
              /\ SubSeq(Result, 1, RealCount) = merged
              /\ \A i \in 1..RealCount : ~IsDemo(Result[i])
              /\ \A i \in 0..4 :
                    /\ IsDemo(Result[RealCount + 1 + i])
                    /\ Result[RealCount + 1 + i].listing_url = DemoUrl(i)

\* two real listings were found: the result is those two and the demo
\* listings 0 to 4 after them
C26_Witness ==
    /\ Done
    /\ RealCount = 2
    /\ Len(Result) = 7
    /\ ~IsDemo(Result[2])
    /\ Result[3].listing_url = DemoUrl(0)
    /\ Result[7].listing_url = DemoUrl(4)

----------------------------------------------------------------------------
(* C27 *)

\* the demo listings of a result
Demos(listings) == SelectSeq(listings, LAMBDA l : IsDemo(l))

\* C27: with the clients the orchestrator can enable, the merged and
\* supplemented sequence has at most 20 listings (10 per source at most, demo
\* listings only below 5), so the cut to 20 drops nothing: the result is the
\* listings of every source, in scrapers order, followed by every generated
\* demo listing.
C27_NothingCut ==
    /\ \A s \in Sources : Len(Listings(s)) <= ElementLimit
    /\ Done =>
          /\ SupplementedLen <= MaxResults
          /\ Len(Result) = SupplementedLen
          /\ SubSeq(Result, 1, Len(merged)) = merged
          /\ merged = Combine([i \in DOMAIN scrapers |-> ListResult(Listings(scrapers[i]))])
          /\ Len(Demos(Result)) = DemoCount * demoCalls
          /\ RealCount + Len(Demos(Result)) = Len(Result)

\* both sources answered with 11 containers and parsed the first 10 each: the
\* result has all 20 listings
C27_Witness ==
    /\ Done
    /\ scrapers = <<AutoTrader, CarsCom>>
    /\ FetchedOk(AutoTrader) /\ FetchedOk(CarsCom)
    /\ Len(Val(outcome[AutoTrader]).body) = 11
    /\ Len(Val(outcome[CarsCom]).body) = 11
    /\ Len(Listings(AutoTrader)) = 10 /\ Len(Listings(CarsCom)) = 10
    /\ Len(Result) = 20
    /\ Result = Listings(AutoTrader) \o Listings(CarsCom)

----------------------------------------------------------------------------
(* C28 *)

\* the answer of the upload step, once it has one
Upload == Val(out)

UploadSucceeded == fn = "upload_car_image" /\ out # None /\ Upload.status = 200

\* process_image_and_search has ended without a search
EndedWithoutSearch == fn = "process_image_and_search"

NoCarsDetected == HTTPException(400, "No cars detected in the image")

\* C28, in a state: an upload step that succeeded holds at least one
\* detection; the request never ends with "No cars detected in the image";
\* when it ends without a search the upload step had failed; and when the
\* orchestrator was invoked, it was with the first detection of the upload.
C28_DetectionFound ==
    /\ UploadSucceeded => Upload.detected_cars # <<>>
    /\ out # Some(NoCarsDetected)
    /\ EndedWithoutSearch => Upload.status \in {400, 413, 500}
    /\ pc # "Idle" => UploadSucceeded /\ detection = Some(Upload.detected_cars[1])

\* C28, in a step: after an upload step that succeeded, the request's next
\* step is the call of scrape_all with the first detection.
C28_ThenSearch ==
    UploadSucceeded /\ pc = "Idle" =>
        pc' # "Idle" /\ detection' = Some(Upload.detected_cars[1])

\* C28: process_image returns a non-empty list whenever it returns, so in
\* /process-and-search the 400 "No cars detected in the image" is never
\* raised and, whenever the upload step succeeds, the orchestrator is invoked
\* with the first detection.
C28_AlwaysSearches == []C28_DetectionFound /\ [][C28_ThenSearch]_vars

\* YOLO found no vehicle in a good image: the default detection (confidence
\* 0.7, make and model Unknown) was returned and scrape_all was called with it
C28_Witness ==
    /\ Val(arg).vision_model = "CarVisionModel"
    /\ ~Val(arg).image.truncated
    /\ UploadSucceeded
    /\ Len(Upload.detected_cars) = 1
    /\ pc = "Gather"
    /\ detection = Some(CarDetection(Unknown, Unknown, None, "sedan",
                                     DefaultConfidence, WholeImageColor))

====
